---- MODULE Spec2Model ----
(***************************************************************************)
(* A model of hall_monitor: the Quay tag checker (quay_image_checker.py),  *)
(* the Tekton manifest updater (update_tekton_sc.py) and the coordinator   *)
(* (coordinator.py).                                                       *)
(*                                                                         *)
(* Python strings are sequences of one-character strings, so that          *)
(* startswith, split, len, isdigit, <, re.sub and str.replace are computed *)
(* character by character as the code computes them.  None and the empty   *)
(* string are both the empty sequence where the code only tests           *)
(* truthiness.                                                             *)
(***************************************************************************)
EXTENDS Integers, Sequences, FiniteSets, TLC

VARIABLES
    \* is_sc_tag_in_range, called on its own
    tagPc, tag_name, start_date, end_date, tag_result,
    \* search_by_date_range and get_all_tags
    qPc, repos, services, idx, page, all_tags,
    repos_with_updates, repos_without_updates, repos_with_errors, found_any,
    requests,
    \* update_yaml_file, called on its own
    pPc, pDry, pContent, pHistory,
    \* TektonUpdater and the working copies it runs git in
    uPc, dry_run, specific_repos, parent_exists, listing, world, gitFaults,
    uRepos, uIdx, branch_exists_locally, files_changed, add_i, commit_sha,
    commit_log, no_changes_log, ops,
    \* the runs of TektonUpdater that ended before the current one
    runs,
    \* the coordinator's main, its configuration, and the registry
    coPc, config, stale_services, registry

tagVars == <<tagPc, tag_name, tag_result>>

rangeVars == <<start_date, end_date>>

quayVars ==
    <<qPc, repos, services, idx, page, all_tags, repos_with_updates,
      repos_without_updates, repos_with_errors, found_any, requests>>

patchVars == <<pPc, pDry, pContent, pHistory>>

updVars ==
    <<uPc, dry_run, specific_repos, parent_exists, listing, world, gitFaults,
      uRepos, uIdx, branch_exists_locally, files_changed, add_i, commit_sha,
      commit_log, no_changes_log, ops, runs>>

coVars == <<coPc, config, stale_services, registry>>

vars == <<tagVars, rangeVars, quayVars, patchVars, updVars, coVars>>

----------------------------------------------------------------------------
(* Strings *)

Digits == {"0","1","2","3","4","5","6","7","8","9"}

\* The characters of the model in code-point order (str comparison compares
\* code points).
CodePoints ==
    <<"\n","\"","#","-",".","/","0","1","2","3","4","5","6","7","8","9",":",
      "\\","a","b","c","d","e","f","g","h","i","k","m","n","o","p","q","r",
      "s","t","u","v","w","x","y">>

Ord(c) == CHOOSE i \in 1..Len(CodePoints) : CodePoints[i] = c

Min(a, b) == IF a < b THEN a ELSE b

\* str.__lt__: lexicographic on code points, a proper prefix is smaller.
StrLess(a, b) ==
    \E k \in 1..(Min(Len(a), Len(b)) + 1) :
        /\ \A j \in 1..(k - 1) : a[j] = b[j]
        /\ \/ k > Len(a) /\ k <= Len(b)
           \/ k <= Len(a) /\ k <= Len(b) /\ Ord(a[k]) < Ord(b[k])

\* str.startswith
StartsWith(s, p) == Len(s) >= Len(p) /\ SubSeq(s, 1, Len(p)) = p

\* str.isdigit (ASCII): non-empty and every character a digit.
IsDigit(s) == Len(s) > 0 /\ \A i \in 1..Len(s) : s[i] \in Digits

\* Position of the first occurrence of character c in s at or after i, or 0.
FindChar(s, c, i) ==
    LET hits == {k \in i..Len(s) : s[k] = c}
    IN IF hits = {} THEN 0 ELSE CHOOSE k \in hits : \A m \in hits : k <= m

\* str.split(c): every separator splits; "" gives [""].
RECURSIVE Split(_, _)
Split(s, c) ==
    LET k == FindChar(s, c, 1)
    IN IF k = 0 THEN <<s>>
       ELSE <<SubSeq(s, 1, k - 1)>> \o Split(SubSeq(s, k + 1, Len(s)), c)

\* str.split(c, 1): at most one split.
Split1(s, c) ==
    LET k == FindChar(s, c, 1)
    IN IF k = 0 THEN <<s>>
       ELSE <<SubSeq(s, 1, k - 1), SubSeq(s, k + 1, Len(s))>>

\* c.join(parts)
RECURSIVE Join(_, _)
Join(parts, c) ==
    IF Len(parts) = 0 THEN <<>>
    ELSE IF Len(parts) = 1 THEN parts[1]
    ELSE parts[1] \o <<c>> \o Join(Tail(parts), c)

\* Python truthiness of an Optional[str]: None and "" are both false.
Truthy(s) == Len(s) > 0

----------------------------------------------------------------------------
(* quay_image_checker.is_sc_tag_in_range *)

SC_PREFIX == <<"s","c","-">>

\* len(parts) < 3
MinParts == 3

\* len(date_str) != 8
DateLen == 8

NoDate == <<>>

is_sc_tag_in_range_exclusive(name, start, end) ==
    IF ~StartsWith(name, SC_PREFIX) THEN [match |-> FALSE, date |-> NoDate]
    ELSE LET parts == Split(name, "-")
         IN IF Len(parts) < MinParts THEN [match |-> FALSE, date |-> NoDate]
            ELSE LET date_str == parts[2]
                 IN IF Len(date_str) # DateLen \/ ~IsDigit(date_str)
                        THEN [match |-> FALSE, date |-> NoDate]
                    ELSE IF Truthy(start) /\ ~StrLess(start, date_str)
                        THEN [match |-> FALSE, date |-> date_str]
                    ELSE IF Truthy(end) /\ ~StrLess(date_str, end)
                        THEN [match |-> FALSE, date |-> date_str]
                    ELSE [match |-> TRUE, date |-> date_str]

is_sc_tag_in_range(name, start, end) ==
    IF ~StartsWith(name, SC_PREFIX) THEN [match |-> FALSE, date |-> NoDate]
    ELSE LET parts == Split(name, "-")
         IN IF Len(parts) < MinParts THEN [match |-> FALSE, date |-> NoDate]
            ELSE LET date_str == parts[2]
                 IN IF Len(date_str) # DateLen \/ ~IsDigit(date_str)
                        THEN [match |-> FALSE, date |-> NoDate]
                    ELSE IF Truthy(start) /\ StrLess(date_str, start)
                        THEN [match |-> FALSE, date |-> date_str]
                    ELSE IF Truthy(end) /\ StrLess(end, date_str)
                        THEN [match |-> FALSE, date |-> date_str]
                    ELSE [match |-> TRUE, date |-> date_str]

\* Inputs of the function: tag names assembled from a prefix, a second
\* segment and a remainder, so that every branch of the format check and
\* both ends of the date range are met.
TagPrefixes ==
    { <<"s","c","-">>, <<"s","c">>, <<"s","x","-">>, <<>> }

TagSecondSegments ==
    { <<"2","0","2","4","0","1","0","1">>,
      <<"2","0","2","3","1","2","0","1">>,
      <<"2","0","2","4","0","2","0","1">>,
      <<"2","0","2","3","1","1","3","0">>,
      <<"2","0","2","4","0","2","0","2">>,
      <<"2","0","2","0","0","1","0","1">>,
      <<"2","0","2","4","0","1","0">>,
      <<"2","0","2","4","0","1","0","1","1">>,
      <<"2","0","2","4","0","1","0","a">>,
      <<"a","b","c">>,
      <<"2","0","2","4">>,
      <<>> }

TagRemainders ==
    { <<>>, <<"-">>, <<"-","a","b","c","1","2","3">>, <<"-","d","e","f">>,
      <<"-","0","1","-","0","1">> }

TagNames ==
    { p \o d \o r : p \in TagPrefixes, d \in TagSecondSegments, r \in TagRemainders }

StartDates == { <<>>, <<"2","0","2","3","1","2","0","1">> }

EndDates == { <<>>, <<"2","0","2","4","0","2","0","1">> }

TagIdle ==
    /\ tagPc = "idle"
    /\ tag_name = <<>>
    /\ tag_result = [match |-> FALSE, date |-> NoDate]

InitTag ==
    /\ tagPc = "call"
    /\ tag_name \in TagNames
    /\ start_date \in StartDates
    /\ end_date \in EndDates
    /\ tag_result = [match |-> FALSE, date |-> NoDate]

CallIsScTagInRange ==
    /\ tagPc = "call"
    /\ tag_result' = is_sc_tag_in_range(tag_name, start_date, end_date)
    /\ tagPc' = "done"
    /\ UNCHANGED <<tag_name, rangeVars, quayVars, patchVars, updVars, coVars>>

\* The value of a string of decimal digits.
RECURSIVE DateNum(_)
DateNum(d) ==
    IF Len(d) = 0 THEN 0
    ELSE 10 * DateNum(SubSeq(d, 1, Len(d) - 1)) + (Ord(d[Len(d)]) - Ord("0"))

\* name = "sc-" DDDDDDDD "-" rest, stated by position.
ScTagShape(name) ==
    /\ Len(name) >= 12
    /\ name[1] = "s" /\ name[2] = "c" /\ name[3] = "-"
    /\ \A k \in 4..11 : name[k] \in Digits
    /\ name[12] = "-"

ScTagInRange(name, start, end) ==
    /\ ScTagShape(name)
    /\ LET d == DateNum(SubSeq(name, 4, 11))
       IN /\ (start # <<>> => DateNum(start) <= d)
          /\ (end # <<>> => d <= DateNum(end))

\* C7: is_sc_tag_in_range matches exactly the names sc-<8 digits>-<rest>
\* whose date lies in [start, end] (inclusive, either bound may be absent),
\* and a match carries the 8-digit date.
C7_MatchIffShapeAndRange ==
    tagPc = "done" =>
        /\ tag_result.match <=> ScTagInRange(tag_name, start_date, end_date)
        /\ tag_result.match => tag_result.date = SubSeq(tag_name, 4, 11)

\* sc-20240101-abc123 with start 20231201 and end 20240201 matches with
\* date 20240101.
C7_Witness ==
    /\ tagPc = "done"
    /\ tag_name = <<"s","c","-","2","0","2","4","0","1","0","1","-","a","b","c","1","2","3">>
    /\ start_date = <<"2","0","2","3","1","2","0","1">>
    /\ end_date = <<"2","0","2","4","0","2","0","1">>
    /\ tag_result = [match |-> TRUE, date |-> <<"2","0","2","4","0","1","0","1">>]

----------------------------------------------------------------------------
(* quay_image_checker: parse_quay_repo, get_quay_tags, get_all_tags,       *)
(* search_by_date_range                                                    *)

QUAY_HOST == <<"q","u","a","y",".","i","o","/">>

\* The reference taken as it is, whatever its number of segments.
parse_quay_repo_lenient(repo_url) ==
    [ok |-> TRUE, namespace |-> repo_url, repository |-> <<>>]

\* parse_quay_repo: ok = FALSE stands for the ValueError.
parse_quay_repo(repo_url) ==
    LET stripped == IF StartsWith(repo_url, QUAY_HOST)
                    THEN SubSeq(repo_url, Len(QUAY_HOST) + 1, Len(repo_url))
                    ELSE repo_url
        parts == Split1(stripped, "/")
    IN IF Len(parts) < 2
       THEN [ok |-> FALSE, namespace |-> <<>>, repository |-> <<>>]
       ELSE [ok |-> TRUE, namespace |-> parts[1], repository |-> parts[2]]

\* The tags the registry of the model serves.
TAG_IN == [name |-> <<"s","c","-","2","0","2","4","0","1","0","1","-","a">>]
TAG_IN2 == [name |-> <<"s","c","-","2","0","2","4","0","1","1","5","-","b">>]
TAG_OUT == [name |-> <<"s","c","-","2","0","2","0","0","1","0","1","-","d">>]
TAG_BAD == [name |-> <<"s","c","-","a","b","c","-","d","e","f">>]
TAG_BAD2 == [name |-> <<"s","c","-","2","0","2","4","-","0","1","-","0","1">>]

PageTagLists ==
    { <<>>, <<TAG_IN>>, <<TAG_OUT>>, <<TAG_IN2, TAG_IN>>, <<TAG_BAD, TAG_BAD2>> }

\* The cap on the page counter: the registry's last page is page MaxPages.
MaxPages == 2

\* What one request of get_quay_tags can meet: an HTTP 404, another HTTP
\* error, a transport failure, a JSON body without a 'tags' key, or a body
\* with tags and has_additional true, false or absent.
FailureKinds == {"404", "http", "transport"}

AllResponses ==
    [kind : FailureKinds \cup {"nokey"}, tags : {<<>>}, has_additional : {"absent"}]
    \cup
    [kind : {"ok"}, tags : PageTagLists, has_additional : {"true", "false", "absent"}]

\* The answers the registry can give to the request for page p.
Responses(p) ==
    { r \in registry : p >= MaxPages => r.has_additional # "true" }

\* get_quay_tags returns None on every HTTPError and every other exception.
ReturnsNone(resp) == resp.kind \in FailureKinds

\* The page's tags put before the tags gathered so far.
GetAllTagsTurnNewestFirst(gathered, resp) ==
    IF ReturnsNone(resp) \/ resp.kind = "nokey"
        THEN [tags |-> gathered, more |-> FALSE]
    ELSE IF resp.tags = <<>>
        THEN [tags |-> gathered, more |-> FALSE]
    ELSE [tags |-> resp.tags \o gathered,
          more |-> resp.has_additional = "true"]

\* get_all_tags, one turn of its loop on the response to page `page`:
\* the tags gathered so far and whether the loop goes on to the next page.
GetAllTagsTurn(gathered, resp) ==
    IF ReturnsNone(resp) \/ resp.kind = "nokey"
        THEN [tags |-> gathered, more |-> FALSE]
    ELSE IF resp.tags = <<>>
        THEN [tags |-> gathered, more |-> FALSE]
    ELSE [tags |-> gathered \o resp.tags,
          more |-> resp.has_additional = "true"]

\* A match put into a list kept newest date first.
InsertNewest(m, seq) ==
    LET later == {k \in 1..Len(seq) : StrLess(m.date, seq[k].date)}
        n == Cardinality(later)
    IN SubSeq(seq, 1, n) \o <<m>> \o SubSeq(seq, n + 1, Len(seq))

\* The matches ordered by their date, newest first.
RECURSIVE MatchesNewestFirst(_, _, _)
MatchesNewestFirst(tags, start, end) ==
    IF tags = <<>> THEN <<>>
    ELSE LET r == is_sc_tag_in_range(Head(tags).name, start, end)
             rest == MatchesNewestFirst(Tail(tags), start, end)
         IN IF r.match THEN InsertNewest([tag |-> Head(tags), date |-> r.date], rest)
            ELSE rest

\* The (tag, date_str) pairs of the tags that match, in listing order.
RECURSIVE Matches(_, _, _)
Matches(tags, start, end) ==
    IF tags = <<>> THEN <<>>
    ELSE LET r == is_sc_tag_in_range(Head(tags).name, start, end)
             rest == Matches(Tail(tags), start, end)
         IN IF r.match THEN <<[tag |-> Head(tags), date |-> r.date]>> \o rest
            ELSE rest

INVALID_REPO == "Invalid repo format"
NO_TAGS == "No tags found or error accessing repository"

Buckets ==
    [updates |-> repos_with_updates, without |-> repos_without_updates,
     errors |-> repos_with_errors, found |-> found_any]

ClassifyFallsThrough(b, service, tags, start, end) ==
    LET b1 == IF tags = <<>>
              THEN [b EXCEPT !.errors = Append(@, [service |-> service, error |-> NO_TAGS])]
              ELSE b
        matches == Matches(tags, start, end)
    IN IF matches # <<>>
       THEN [b1 EXCEPT !.found = TRUE,
                       !.updates = Append(@, [service |-> service, matches |-> matches])]
       ELSE [b1 EXCEPT !.without = Append(@, service)]

ClassifyNoMatchAsError(b, service, tags, start, end) ==
    LET matches == Matches(tags, start, end)
    IN IF matches # <<>>
       THEN [b EXCEPT !.found = TRUE,
                      !.updates = Append(@, [service |-> service, matches |-> matches])]
       ELSE [b EXCEPT !.errors = Append(@, [service |-> service, error |-> NO_TAGS])]

\* search_by_date_range, from the return of get_all_tags to the end of the
\* loop body: the bucket the service lands in.
Classify(b, service, tags, start, end) ==
    IF tags = <<>>
    THEN [b EXCEPT !.errors = Append(@, [service |-> service, error |-> NO_TAGS])]
    ELSE LET matches == Matches(tags, start, end)
         IN IF matches # <<>>
            THEN [b EXCEPT !.found = TRUE,
                           !.updates = Append(@, [service |-> service, matches |-> matches])]
            ELSE [b EXCEPT !.without = Append(@, service)]

\* The report's line for an updated service: `latest = matches[0]`.
ReportLatest(matches) == matches[1]

\* `if services and service not in services: continue`
FilteredOut(service, filter) == filter # {} /\ service \notin filter

SetBuckets(b) ==
    /\ repos_with_updates' = b.updates
    /\ repos_without_updates' = b.without
    /\ repos_with_errors' = b.errors
    /\ found_any' = b.found

QuayIdle ==
    /\ qPc = "idle"
    /\ repos = <<>>
    /\ services = {}
    /\ idx = 0
    /\ page = 0
    /\ all_tags = <<>>
    /\ repos_with_updates = <<>>
    /\ repos_without_updates = <<>>
    /\ repos_with_errors = <<>>
    /\ found_any = FALSE
    /\ requests = <<>>

\* The head of `for service, repo_url in repos.items()` up to the call of
\* get_all_tags: a filtered service is skipped, an unparsable reference is
\* recorded as an error, otherwise get_all_tags starts at page 1.
SearchIterate ==
    /\ qPc = "loop"
    /\ idx < Len(repos)
    /\ LET item == repos[idx + 1]
           parsed == parse_quay_repo(item.repo_url)
       IN IF FilteredOut(item.service, services)
          THEN /\ idx' = idx + 1
               /\ UNCHANGED <<qPc, page, all_tags, repos_with_updates,
                              repos_without_updates, repos_with_errors, found_any>>
          ELSE IF ~parsed.ok
          THEN /\ idx' = idx + 1
               /\ repos_with_errors' =
                      Append(repos_with_errors,
                             [service |-> item.service, error |-> INVALID_REPO])
               /\ UNCHANGED <<qPc, page, all_tags, repos_with_updates,
                              repos_without_updates, found_any>>
          ELSE /\ qPc' = "fetch"
               /\ page' = 1
               /\ all_tags' = <<>>
               /\ UNCHANGED <<idx, repos_with_updates, repos_without_updates,
                              repos_with_errors, found_any>>
    /\ UNCHANGED <<repos, services, requests, rangeVars, tagVars, patchVars, updVars, coVars>>

\* One request of get_quay_tags inside get_all_tags and what follows it: the
\* next page, or the return of get_all_tags and the classification of the
\* service.
GetQuayTags ==
    /\ qPc = "fetch"
    /\ \E resp \in Responses(page) :
        LET item == repos[idx + 1]
            parsed == parse_quay_repo(item.repo_url)
            turn == GetAllTagsTurn(all_tags, resp)
        IN /\ requests' = Append(requests,
                  [service |-> item.service, namespace |-> parsed.namespace,
                   repository |-> parsed.repository, page |-> page,
                   kind |-> resp.kind, tags |-> resp.tags,
                   has_additional |-> resp.has_additional])
           /\ IF turn.more
              THEN /\ page' = page + 1
                   /\ all_tags' = turn.tags
                   /\ UNCHANGED <<qPc, idx, repos_with_updates,
                                  repos_without_updates, repos_with_errors, found_any>>
              ELSE /\ SetBuckets(Classify(Buckets, item.service, turn.tags,
                                          start_date, end_date))
                   /\ idx' = idx + 1
                   /\ qPc' = "loop"
                   /\ page' = 0
                   /\ all_tags' = <<>>
    /\ UNCHANGED <<repos, services, rangeVars, tagVars, patchVars, updVars, coVars>>

\* The loop is over: search_by_date_range prints its report and returns
\* (found_any, repos_without_updates).
SearchReturn ==
    /\ qPc = "loop"
    /\ idx = Len(repos)
    /\ qPc' = "done"
    /\ UNCHANGED <<repos, services, idx, page, all_tags, repos_with_updates,
                   repos_without_updates, repos_with_errors, found_any,
                   requests, rangeVars, tagVars, patchVars, updVars, coVars>>

SVC_A == "chrome-service"
SVC_B == "notifications-aggregator"
SVC_C == "notifications-engine-sc"

URL_A == <<"q","u","a","y",".","i","o","/","n","s","/","a">>
URL_B == <<"q","u","a","y",".","i","o","/","n","s","/","b">>
URL_C == <<"q","u","a","y",".","i","o","/","n","s","/","c">>
URL_NOHOST == <<"n","s","/","p","a","t","h","/","c">>
URL_BAD == <<"q","u","a","y",".","i","o","/","b","a","d">>

\* Service-to-registry mappings (a dict: the keys are distinct).
QuayMappings ==
    { <<[service |-> SVC_A, repo_url |-> URL_A]>>,
      <<[service |-> SVC_A, repo_url |-> URL_A], [service |-> SVC_B, repo_url |-> URL_B]>>,
      <<[service |-> SVC_B, repo_url |-> URL_BAD], [service |-> SVC_A, repo_url |-> URL_NOHOST]>>,
      <<[service |-> SVC_A, repo_url |-> URL_A], [service |-> SVC_C, repo_url |-> URL_BAD],
        [service |-> SVC_B, repo_url |-> URL_B]>> }

ServiceFilters == { {}, {SVC_A}, {SVC_B, SVC_C} }

RANGE_START == <<"2","0","2","3","1","2","0","1">>
RANGE_END == <<"2","0","2","4","0","2","0","1">>

InitSearch ==
    /\ qPc = "loop"
    /\ repos \in QuayMappings
    /\ services \in ServiceFilters
    /\ idx = 0
    /\ page = 0
    /\ all_tags = <<>>
    /\ repos_with_updates = <<>>
    /\ repos_without_updates = <<>>
    /\ repos_with_errors = <<>>
    /\ found_any = FALSE
    /\ requests = <<>>
    /\ start_date = RANGE_START
    /\ end_date = RANGE_END
    /\ registry = AllResponses

NextQuay == SearchIterate \/ GetQuayTags \/ SearchReturn

----------------------------------------------------------------------------
(* Claims about search_by_date_range and get_all_tags (SpecQuay) *)

UpdatedServices == {repos_with_updates[i].service : i \in 1..Len(repos_with_updates)}
NotUpdatedServices == {repos_without_updates[i] : i \in 1..Len(repos_without_updates)}
ErroredServices == {repos_with_errors[i].service : i \in 1..Len(repos_with_errors)}

\* The services of the first n items of the mapping that pass the filter.
PassingServices(n) ==
    {repos[i].service : i \in {k \in 1..n : ~FilteredOut(repos[k].service, services)}}

\* The services whose loop body has run to its end.
ClassifiedServices == PassingServices(idx)

RequestsOf(svc) == SelectSeq(requests, LAMBDA r : r.service = svc)

RECURSIVE TagsOf(_)
TagsOf(reqs) ==
    IF reqs = <<>> THEN <<>> ELSE Head(reqs).tags \o TagsOf(Tail(reqs))

\* The tags the registry returned for a service, over all its pages.
ReturnedTags(svc) == TagsOf(RequestsOf(svc))

\* C5: a service one of whose page requests failed is in the errored
\* bucket.
C5_FailedPageMeansErrored ==
    \A i \in 1..Len(requests) :
        requests[i].kind \in FailureKinds => requests[i].service \in ErroredServices

\* C6: the three buckets are pairwise disjoint, hold no service twice, and
\* together hold exactly the services of the mapping that pass the filter
\* (of the items the loop has been through; of all items once it is over).
C6_BucketsPartitionServices ==
    /\ UpdatedServices \cap NotUpdatedServices = {}
    /\ UpdatedServices \cap ErroredServices = {}
    /\ NotUpdatedServices \cap ErroredServices = {}
    /\ Cardinality(UpdatedServices) = Len(repos_with_updates)
    /\ Cardinality(NotUpdatedServices) = Len(repos_without_updates)
    /\ Cardinality(ErroredServices) = Len(repos_with_errors)
    /\ UpdatedServices \cup NotUpdatedServices \cup ErroredServices = ClassifiedServices
    /\ qPc = "done" => ClassifiedServices = PassingServices(Len(repos))

\* The search is over with a service in each bucket and one filtered out.
C6_Witness ==
    /\ qPc = "done"
    /\ UpdatedServices # {}
    /\ NotUpdatedServices # {}
    /\ ErroredServices # {}

C6_WitnessFiltered ==
    /\ qPc = "done"
    /\ services # {}
    /\ PassingServices(Len(repos)) # {repos[i].service : i \in 1..Len(repos)}
    /\ UpdatedServices \cup NotUpdatedServices # {}

\* C8: a tag that fails the format check is in no match list, and a service
\* for which the registry returned at least one tag, none of them a match,
\* is in notUpdated and not in errored.
C8_NoMatchIsNotUpdated ==
    /\ \A i \in 1..Len(repos_with_updates) :
           \A j \in 1..Len(repos_with_updates[i].matches) :
               ScTagShape(repos_with_updates[i].matches[j].tag.name)
    /\ \A svc \in ClassifiedServices :
           LET returned == ReturnedTags(svc)
           IN (/\ returned # <<>>
               /\ \A k \in 1..Len(returned) :
                      ~ScTagInRange(returned[k].name, start_date, end_date))
              => svc \in NotUpdatedServices /\ svc \notin ErroredServices

\* A service whose only tags are sc-abc-def and sc-2024-01-01 is in
\* notUpdated.
C8_Witness ==
    /\ qPc = "done"
    /\ \E svc \in NotUpdatedServices :
           ReturnedTags(svc) = <<TAG_BAD, TAG_BAD2>>

\* The reference, after the host quay.io/ is stripped, has fewer than two
\* path segments: it holds no '/'.
UnparsableReference(repo_url) ==
    LET path == IF StartsWith(repo_url, QUAY_HOST)
                THEN SubSeq(repo_url, Len(QUAY_HOST) + 1, Len(repo_url))
                ELSE repo_url
    IN \A k \in 1..Len(path) : path[k] # "/"

\* C15: a service that passes the filter and whose reference cannot be
\* parsed is in the errored bucket, once, with the invalid-format reason, no
\* request has been issued for it, and the loop has gone on: when the search
\* returns every passing service, those after it included, has its bucket.
C15_UnparsableReferenceIsErrored ==
    /\ \A k \in 1..idx :
           (/\ ~FilteredOut(repos[k].service, services)
            /\ UnparsableReference(repos[k].repo_url))
           => /\ Len(SelectSeq(repos_with_errors,
                               LAMBDA e : e.service = repos[k].service)) = 1
              /\ \E j \in 1..Len(repos_with_errors) :
                     repos_with_errors[j] =
                         [service |-> repos[k].service, error |-> INVALID_REPO]
              /\ repos[k].service \notin UpdatedServices \cup NotUpdatedServices
              /\ RequestsOf(repos[k].service) = <<>>
    /\ qPc = "done" =>
           PassingServices(Len(repos))
               = UpdatedServices \cup NotUpdatedServices \cup ErroredServices

\* The first service's reference is quay.io/bad; the search has gone on to
\* the second, asked the registry for its tags and found an image in range.
C15_Witness ==
    /\ qPc = "done"
    /\ Len(repos) = 2
    /\ repos[1].repo_url = URL_BAD
    /\ repos_with_errors = <<[service |-> repos[1].service, error |-> INVALID_REPO]>>
    /\ RequestsOf(repos[1].service) = <<>>
    /\ RequestsOf(repos[2].service) # <<>>
    /\ repos[2].service \in UpdatedServices

\* The reasons recorded in the errored bucket for a service.
ErrorsOf(svc) ==
    {repos_with_errors[j].error :
        j \in {k \in 1..Len(repos_with_errors) : repos_with_errors[k].service = svc}}

\* The kinds of failure the requests for a service met.
FailuresOf(svc) ==
    {requests[j].kind :
        j \in {k \in 1..Len(requests) :
                  requests[k].service = svc /\ requests[k].kind \in FailureKinds}}

\* C16: the reason recorded for a service whose tag request met a 404 is
\* not the reason recorded for a service whose request met another HTTP
\* error or a transport failure.
C16_NotFoundHasItsOwnReason ==
    \A a, b \in ErroredServices :
        (FailuresOf(a) = {"404"} /\ FailuresOf(b) # {} /\ "404" \notin FailuresOf(b))
            => ErrorsOf(a) \cap ErrorsOf(b) = {}

\* The response lets get_all_tags go on to the next page: a body with a
\* non-empty tags list and has_additional true.
GoesOn(req) ==
    req.kind = "ok" /\ req.tags # <<>> /\ req.has_additional = "true"

\* C18: the requests for a service are for pages 1, 2, 3, ... in order;
\* every page but the last asked for lets the loop go on and, once the
\* service has its bucket, the last one does not; the list gathered while
\* the loop runs, and the list the service is classified by, is the
\* concatenation of the pages' tags in the order of the requests.
C18_PagesInOrderAndConcatenated ==
    /\ \A k \in 1..Len(repos) :
           LET svc == repos[k].service
               reqs == RequestsOf(svc)
           IN /\ \A n \in 1..Len(reqs) : reqs[n].page = n
              /\ \A n \in 1..(Len(reqs) - 1) : GoesOn(reqs[n])
              /\ (k <= idx /\ reqs # <<>>) =>
                     /\ ~GoesOn(reqs[Len(reqs)])
                     /\ svc \in ErroredServices <=> TagsOf(reqs) = <<>>
                     /\ \A j \in 1..Len(repos_with_updates) :
                            repos_with_updates[j].service = svc =>
                                repos_with_updates[j].matches
                                    = Matches(TagsOf(reqs), start_date, end_date)
              /\ k > idx + 1 => reqs = <<>>
    /\ qPc = "fetch" =>
           LET reqs == RequestsOf(repos[idx + 1].service)
           IN /\ page = Len(reqs) + 1
              /\ all_tags = TagsOf(reqs)
              /\ \A n \in 1..Len(reqs) : GoesOn(reqs[n])

\* Two pages were asked for a service and the second page's tags follow the
\* first's.
C18_Witness ==
    /\ qPc = "done"
    /\ \E k \in 1..Len(repos) :
           LET reqs == RequestsOf(repos[k].service)
           IN /\ Len(reqs) = 2
              /\ reqs[1].tags = <<TAG_IN2, TAG_IN>>
              /\ reqs[2].tags = <<TAG_OUT>>
              /\ reqs[2].has_additional = "false"
              /\ \E j \in 1..Len(repos_with_updates) :
                     /\ repos_with_updates[j].service = repos[k].service
                     /\ Len(repos_with_updates[j].matches) = 2

\* The positions, in the listing of a service, of the tags that match.
MatchingPositions(listed) ==
    {n \in 1..Len(listed) :
        is_sc_tag_in_range(listed[n].name, start_date, end_date).match}

\* C27: the match list of an updated service has one entry per matching tag
\* of the listing the registry returned, page after page; the i-th entry is
\* the i-th matching tag of that listing, whatever its date; and the match
\* the report prints for the service is the first matching tag of the
\* listing.
C27_MatchesKeepListingOrder ==
    \A j \in 1..Len(repos_with_updates) :
        LET listed == ReturnedTags(repos_with_updates[j].service)
            matches == repos_with_updates[j].matches
            at == MatchingPositions(listed)
        IN /\ Len(matches) = Cardinality(at)
           /\ \A n \in at :
                  matches[Cardinality({m \in at : m <= n})].tag = listed[n]
           /\ at # {}
           /\ ReportLatest(matches).tag
                  = listed[CHOOSE n \in at : \A m \in at : n <= m]

\* A service whose listing came in two pages, an older matching tag before
\* a newer one: the report prints the older one.
C27_Witness ==
    /\ qPc = "done"
    /\ \E j \in 1..Len(repos_with_updates) :
           LET reqs == RequestsOf(repos_with_updates[j].service)
               matches == repos_with_updates[j].matches
           IN /\ Len(reqs) = 2
              /\ reqs[1].tags = <<TAG_IN>>
              /\ reqs[2].tags = <<TAG_IN2, TAG_IN>>
              /\ Len(matches) = 3
              /\ ReportLatest(matches).tag = TAG_IN
              /\ StrLess(matches[1].date, matches[2].date)

----------------------------------------------------------------------------
(* update_tekton_sc: the manifest text, url_pattern and update_yaml_file   *)

\* r'(https://github\.com/[^/]+/[^/]+/raw/)v[\d.]+(/.*)'
GITHUB == <<"h","t","t","p","s",":","/","/","g","i","t","h","u","b",".","c","o","m","/">>
RAW == <<"r","a","w">>
MAIN == <<"m","a","i","n">>

\* v[\d.]+ up to the next '/'
IsVersionTag(t) ==
    /\ Len(t) >= 2
    /\ t[1] = "v"
    /\ \A k \in 2..Len(t) : t[k] \in Digits \cup {"."}

\* The pattern matches at position i of s: the literal host, an owner and a
\* repository without '/', the segment raw, a version tag, and a '/' after
\* it (.* then runs to the end of the line).
UrlPatternMatchesAt(s, i) ==
    /\ StartsWith(SubSeq(s, i, Len(s)), GITHUB)
    /\ LET segs == Split(SubSeq(s, i + Len(GITHUB), Len(s)), "/")
       IN /\ Len(segs) >= 5
          /\ segs[1] # <<>>
          /\ segs[2] # <<>>
          /\ segs[3] = RAW
          /\ IsVersionTag(segs[4])

\* url_pattern.sub(r'\1main\2', s) on a one-line string: the leftmost match
\* has its version tag replaced by main; the match runs to the end of the
\* string, so there is no second one.
UrlPatternSub(s) ==
    LET starts == {i \in 1..Len(s) : UrlPatternMatchesAt(s, i)}
    IN IF starts = {} THEN s
       ELSE LET i == CHOOSE k \in starts : \A m \in starts : k <= m
                segs == Split(SubSeq(s, i + Len(GITHUB), Len(s)), "/")
            IN SubSeq(s, 1, i - 1) \o GITHUB
                   \o Join([segs EXCEPT ![4] = MAIN], "/")

\* Position of the first occurrence of old in s, or 0.
Find(s, old) ==
    LET hits == {k \in 1..(Len(s) - Len(old) + 1) :
                    SubSeq(s, k, k + Len(old) - 1) = old}
    IN IF hits = {} THEN 0 ELSE CHOOSE k \in hits : \A m \in hits : k <= m

\* str.replace(old, new) for a non-empty old: every occurrence, left to right.
RECURSIVE Replace(_, _, _)
Replace(s, old, new) ==
    LET k == Find(s, old)
    IN IF k = 0 THEN s
       ELSE SubSeq(s, 1, k - 1) \o new
                \o Replace(SubSeq(s, k + Len(old), Len(s)), old, new)

\* The manifest as text: lines joined by "\n".  The model's manifests hold
\* a `metadata:` line and, under it, the pipeline annotation on one line,
\* `  pipeline: <scalar>`, the scalar plain or double-quoted.
METADATA_LINE == <<"m","e","t","a","d","a","t","a",":">>
PIPELINE_KEY == <<" "," ","p","i","p","e","l","i","n","e",":"," ">>
MALFORMED_LINE == <<"{">>
QUOTE == "\""
BACKSLASH == "\\"

\* A double-quoted scalar's escapes: a backslash stands for the character
\* after it.
RECURSIVE Unescape(_)
Unescape(s) ==
    IF s = <<>> THEN <<>>
    ELSE IF s[1] = BACKSLASH /\ Len(s) >= 2
        THEN <<s[2]>> \o Unescape(SubSeq(s, 3, Len(s)))
    ELSE <<s[1]>> \o Unescape(Tail(s))

\* The value of a scalar as yaml.safe_load returns it.
ScalarValue(raw) ==
    IF Len(raw) >= 2 /\ raw[1] = QUOTE /\ raw[Len(raw)] = QUOTE
    THEN Unescape(SubSeq(raw, 2, Len(raw) - 1))
    ELSE raw

\* yaml.safe_load and the lookups of update_yaml_file: whether loading
\* raised, whether 'metadata' is present, whether the pipeline annotation is
\* present, and its value.
YamlLoad(content) ==
    LET lines == Split(content, "\n")
        keyed == {i \in 1..Len(lines) : StartsWith(lines[i], PIPELINE_KEY)}
        first == CHOOSE i \in keyed : \A m \in keyed : i <= m
    IN [raised |-> \E i \in 1..Len(lines) : lines[i] = MALFORMED_LINE,
        has_metadata |-> \E i \in 1..Len(lines) : lines[i] = METADATA_LINE,
        has_pipeline |-> keyed # {},
        url |-> IF keyed = {} THEN <<>>
                ELSE ScalarValue(SubSeq(lines[first], Len(PIPELINE_KEY) + 1,
                                        Len(lines[first])))]

\* update_yaml_file on a file of this content: whether it returns True, the
\* content of the file afterwards and whether the file was written.
UpdateYamlFile(content, dry) ==
    LET data == YamlLoad(content)
        original_url == data.url
        updated_url == UrlPatternSub(original_url)
        updated_content == Replace(content, original_url, updated_url)
        unchanged == [modified |-> FALSE, content |-> content, wrote |-> FALSE]
    IN IF data.raised THEN unchanged
       ELSE IF ~data.has_metadata THEN unchanged
       ELSE IF ~data.has_pipeline THEN unchanged
       ELSE IF original_url = updated_url THEN unchanged
       ELSE IF dry
       THEN [modified |-> TRUE, content |-> content, wrote |-> FALSE]
       ELSE [modified |-> TRUE, content |-> updated_content, wrote |-> TRUE]

URL_PREFIX == GITHUB \o <<"o","/","r","/","r","a","w","/">>
URL_V1 == URL_PREFIX \o <<"v","1","/","f">>
URL_V12 == URL_PREFIX \o <<"v","1",".","2","/","f">>
URL_MAIN == URL_PREFIX \o <<"m","a","i","n","/","f">>
URL_VX == URL_PREFIX \o <<"v","x","/","f">>
URL_NOPATH == URL_PREFIX \o <<"v","1">>
URL_NESTED == URL_PREFIX \o <<"v","1","/">> \o URL_PREFIX \o <<"v","2","/","f">>

ManifestUrls == {URL_V1, URL_V12, URL_MAIN, URL_VX, URL_NOPATH, URL_NESTED}

\* The scalar as written in the file: plain, double-quoted, or double-quoted
\* with every '/' escaped.
RECURSIVE EscapeSlashes(_)
EscapeSlashes(s) ==
    IF s = <<>> THEN <<>>
    ELSE (IF s[1] = "/" THEN <<BACKSLASH, "/">> ELSE <<s[1]>>)
             \o EscapeSlashes(Tail(s))

ScalarStyles == {"plain", "dquoted", "escaped"}

WriteScalar(style, url) ==
    CASE style = "plain" -> url
      [] style = "dquoted" -> <<QUOTE>> \o url \o <<QUOTE>>
      [] style = "escaped" -> <<QUOTE>> \o EscapeSlashes(url) \o <<QUOTE>>

COMMENT == <<"#"," ">>

\* A manifest with the annotation, with or without a leading comment line
\* that quotes the same URL.
Manifest(commented, style, url) ==
    Join((IF commented THEN <<COMMENT \o url>> ELSE <<>>)
             \o <<METADATA_LINE, PIPELINE_KEY \o WriteScalar(style, url)>>, "\n")

MANIFEST_NO_METADATA == Join(<<COMMENT \o URL_V1>>, "\n")
MANIFEST_NO_PIPELINE == Join(<<METADATA_LINE>>, "\n")
MANIFEST_MALFORMED ==
    Join(<<METADATA_LINE, PIPELINE_KEY \o URL_V1, MALFORMED_LINE>>, "\n")

ManifestTexts ==
    { Manifest(c, st, u) : c \in BOOLEAN, st \in ScalarStyles, u \in ManifestUrls }
    \cup {MANIFEST_NO_METADATA, MANIFEST_NO_PIPELINE, MANIFEST_MALFORMED}

\* update_yaml_file applied to one file, again and again.
MaxApplications == 2

PatchIdle ==
    /\ pPc = "idle"
    /\ pDry = FALSE
    /\ pContent = <<>>
    /\ pHistory = <<>>

InitPatch ==
    /\ pPc = "apply"
    /\ pDry \in BOOLEAN
    /\ pContent \in ManifestTexts
    /\ pHistory = <<>>

CallUpdateYamlFile ==
    /\ pPc = "apply"
    /\ Len(pHistory) < MaxApplications
    /\ LET r == UpdateYamlFile(pContent, pDry)
       IN /\ pContent' = r.content
          /\ pHistory' = Append(pHistory,
                 [before |-> pContent, after |-> r.content,
                  modified |-> r.modified, wrote |-> r.wrote])
    /\ UNCHANGED <<pPc, pDry, tagVars, rangeVars, quayVars, updVars, coVars>>

NextPatch == CallUpdateYamlFile

----------------------------------------------------------------------------
(* update_tekton_sc: the git working copies and TektonUpdater             *)

\* A branch: the ids of its commits, oldest first, and the .tekton files of
\* its head.  A branch that does not exist has no commit.
NoBranch == [hist |-> <<>>, files |-> <<>>]

BranchExists(b) == b.hist # <<>>

IsPrefix(a, b) == Len(a) <= Len(b) /\ SubSeq(b, 1, Len(a)) = a

\* What `git status` says of the checked-out branch and upstream/<branch>.
UP_TO_DATE == "Your branch is up to date with"
BEHIND == "Your branch is behind"
AHEAD == "Your branch is ahead of"
DIVERGED == "have diverged"

StatusOutput(g) ==
    IF g.local.hist = g.upstream.hist THEN UP_TO_DATE
    ELSE IF IsPrefix(g.local.hist, g.upstream.hist) THEN BEHIND
    ELSE IF IsPrefix(g.upstream.hist, g.local.hist) THEN AHEAD
    ELSE DIVERGED

\* The ids of the commits this program makes.
ToolCommits == <<"tool1", "tool2", "tool3">>

NewCommitId(hist) ==
    ToolCommits[1 + Cardinality({i \in 1..Len(hist) :
                                    \E k \in 1..Len(ToolCommits) : hist[i] = ToolCommits[k]})]

\* The git subcommands run_git_command is called with.
GitCommands ==
    {"fetch", "rev-parse --verify", "rev-parse --verify upstream", "checkout",
     "checkout -b", "status", "reset --hard", "pull", "add", "commit",
     "rev-parse HEAD", "push"}

\* run_git_command returns (True, stdout) or (False, stderr): a command can
\* succeed when git's preconditions hold, and can fail when they do not or
\* when the environment lets it fail.
Outcomes(cmd, canSucceed) ==
    {ok \in BOOLEAN : (ok => canSucceed) /\ (~ok => (~canSucceed \/ cmd \in gitFaults))}

Op(repo, op, ok, arg) == [repo |-> repo, op |-> op, ok |-> ok, arg |-> arg]

\* tekton_dir.glob('*-sc*.yaml') and glob('*-sc*.yml') on the names of the
\* model.
YamlScNames == {"app-sc.yaml", "app-sc-pr.yaml"}
YmlScNames == {"app-sc.yml"}

\* find_sc_files: the .yaml matches, then the .yml matches.
find_sc_files(files) ==
    SelectSeq(files, LAMBDA f : f.name \in YamlScNames)
        \o SelectSeq(files, LAMBDA f : f.name \in YmlScNames)

\* find_repositories: nothing when the parent directory is missing; the
\* named repositories that exist and hold a .git, in the order given; or,
\* with no names, every subdirectory that holds a .git.
RECURSIVE FilterRepos(_, _)
FilterRepos(names, w) ==
    IF names = <<>> THEN <<>>
    ELSE (IF Head(names) \in DOMAIN w /\ w[Head(names)].exists /\ w[Head(names)].is_git
          THEN <<Head(names)>> ELSE <<>>) \o FilterRepos(Tail(names), w)

find_repositories(parent, names, dirs, w) ==
    IF ~parent THEN <<>>
    ELSE IF names # <<>> THEN FilterRepos(names, w)
    ELSE FilterRepos(dirs, w)

BRANCH_NOT_FOUND == "Branch not found on remote"
NO_SC_FILES == "No -sc files found in .tekton directory"
ALREADY_MAIN == "SC files already use 'main' branch"
UNKNOWN_SHA == "unknown"

RECURSIVE UpdateFiles(_, _, _)

\* The loop of process_repository over sc_files: each file through
\* update_yaml_file, the files on disk afterwards, the names of the files
\* counted as changed and the names of the files written.
UpdateFiles(files, scNames, dry) ==
    IF files = <<>> THEN [files |-> <<>>, changed |-> <<>>, written |-> <<>>]
    ELSE LET f == Head(files)
             rest == UpdateFiles(Tail(files), scNames, dry)
         IN IF f.name \notin scNames
            THEN [rest EXCEPT !.files = <<f>> \o @]
            ELSE LET r == UpdateYamlFile(f.content, dry)
                 IN [files |-> <<[f EXCEPT !.content = r.content]>> \o rest.files,
                     changed |-> (IF r.modified THEN <<f.name>> ELSE <<>>) \o rest.changed,
                     written |-> (IF r.wrote THEN <<f.name>> ELSE <<>>) \o rest.written]

\* The names of sc_files in the order process_repository goes through them.
RECURSIVE NamesOf(_)
NamesOf(files) == IF files = <<>> THEN <<>> ELSE <<Head(files).name>> \o NamesOf(Tail(files))

\* files_changed in the order of sc_files.
InOrderOf(order, names) ==
    SelectSeq(order, LAMBDA n : \E i \in 1..Len(names) : names[i] = n)

RECURSIVE WriteOps(_, _)
WriteOps(repo, names) ==
    IF names = <<>> THEN <<>>
    ELSE <<Op(repo, "write", TRUE, Head(names))>> \o WriteOps(repo, Tail(names))

UpdaterIdle ==
    /\ uPc = "idle"
    /\ dry_run = FALSE
    /\ specific_repos = <<>>
    /\ parent_exists = FALSE
    /\ listing = <<>>
    /\ world = <<>>
    /\ gitFaults = {}
    /\ uRepos = <<>>
    /\ uIdx = 0
    /\ branch_exists_locally = FALSE
    /\ files_changed = <<>>
    /\ add_i = 0
    /\ commit_sha = UNKNOWN_SHA
    /\ commit_log = <<>>
    /\ no_changes_log = <<>>
    /\ ops = <<>>
    /\ runs = <<>>

CurRepo == uRepos[uIdx + 1]

Git == world[CurRepo]

\* process_repository returns: run goes on to the next repository, or to
\* its summary after the last.
NextRepository ==
    /\ uIdx' = uIdx + 1
    /\ uPc' = IF uIdx + 1 = Len(uRepos) THEN "done" ELSE "fetch"
    /\ branch_exists_locally' = FALSE
    /\ files_changed' = <<>>
    /\ add_i' = 0
    /\ commit_sha' = UNKNOWN_SHA

RecordNoChanges(reason) ==
    no_changes_log' = Append(no_changes_log, [repo |-> CurRepo, reason |-> reason])

updConfig == <<dry_run, specific_repos, parent_exists, listing, gitFaults, runs>>

notUpdater == <<tagVars, rangeVars, quayVars, patchVars, coVars>>

\* run: find_repositories, and return at once when it finds nothing.
RunStart ==
    /\ uPc = "start"
    /\ LET found == find_repositories(parent_exists, specific_repos, listing, world)
       IN /\ uRepos' = found
          /\ uPc' = IF found = <<>> THEN "done" ELSE "fetch"
    /\ uIdx' = 0
    /\ UNCHANGED <<world, branch_exists_locally, files_changed, add_i, commit_sha,
                   commit_log, no_changes_log, ops, updConfig, notUpdater>>

\* checkout_and_pull: git fetch upstream; a failure is only warned about.
Fetch ==
    /\ uPc = "fetch"
    /\ \E ok \in Outcomes("fetch", TRUE) :
           ops' = Append(ops, Op(CurRepo, "fetch", ok, ""))
    /\ uPc' = "rev_local"
    /\ UNCHANGED <<world, uRepos, uIdx, branch_exists_locally, files_changed, add_i,
                   commit_sha, commit_log, no_changes_log, updConfig, notUpdater>>

\* git rev-parse --verify <branch>
RevParseLocal ==
    /\ uPc = "rev_local"
    /\ \E ok \in Outcomes("rev-parse --verify", BranchExists(Git.local)) :
           /\ ops' = Append(ops, Op(CurRepo, "rev-parse --verify", ok, ""))
           /\ branch_exists_locally' = ok
    /\ uPc' = "rev_upstream"
    /\ UNCHANGED <<world, uRepos, uIdx, files_changed, add_i, commit_sha,
                   commit_log, no_changes_log, updConfig, notUpdater>>

\* git rev-parse --verify upstream/<branch>; without the branch on the
\* remote checkout_and_pull returns False and process_repository records
\* the repository in no_changes_log.
RevParseUpstreamChecksLate ==
    /\ uPc = "rev_upstream"
    /\ \E ok \in Outcomes("rev-parse --verify upstream", BranchExists(Git.upstream)) :
           /\ ops' = Append(ops, Op(CurRepo, "rev-parse --verify upstream", ok, ""))
           /\ uPc' = "checkout"
           /\ UNCHANGED <<no_changes_log, uIdx, branch_exists_locally,
                          files_changed, add_i, commit_sha>>
    /\ UNCHANGED <<world, uRepos, commit_log, updConfig, notUpdater>>

RevParseUpstream ==
    /\ uPc = "rev_upstream"
    /\ \E ok \in Outcomes("rev-parse --verify upstream", BranchExists(Git.upstream)) :
           /\ ops' = Append(ops, Op(CurRepo, "rev-parse --verify upstream", ok, ""))
           /\ IF ok
              THEN /\ uPc' = "checkout"
                   /\ UNCHANGED <<no_changes_log, uIdx, branch_exists_locally,
                                  files_changed, add_i, commit_sha>>
              ELSE /\ RecordNoChanges(BRANCH_NOT_FOUND)
                   /\ NextRepository
    /\ UNCHANGED <<world, uRepos, commit_log, updConfig, notUpdater>>

SetGit(g) == world' = [world EXCEPT ![CurRepo] = g]

\* git status, and the reset or pull after it, follow every checkout.
CheckoutAlwaysReconciles ==
    /\ uPc = "checkout"
    /\ LET cmd == IF branch_exists_locally THEN "checkout" ELSE "checkout -b"
           can == IF branch_exists_locally
                  THEN BranchExists(Git.local)
                  ELSE ~BranchExists(Git.local) /\ BranchExists(Git.upstream)
           head == IF branch_exists_locally THEN Git.local ELSE Git.upstream
       IN \E ok \in Outcomes(cmd, can) :
           /\ ops' = Append(ops, Op(CurRepo, cmd, ok, ""))
           /\ IF ok
              THEN /\ SetGit([Git EXCEPT !.local = head, !.wt = head.files])
                   /\ uPc' = "status"
                   /\ UNCHANGED <<no_changes_log, uIdx, branch_exists_locally,
                                  files_changed, add_i, commit_sha>>
              ELSE /\ RecordNoChanges(BRANCH_NOT_FOUND)
                   /\ NextRepository
                   /\ UNCHANGED world
    /\ UNCHANGED <<uRepos, commit_log, updConfig, notUpdater>>

\* git checkout <branch>, or git checkout -b <branch> upstream/<branch> when
\* the branch was not found locally; a failure ends checkout_and_pull with
\* False.
Checkout ==
    /\ uPc = "checkout"
    /\ LET cmd == IF branch_exists_locally THEN "checkout" ELSE "checkout -b"
           can == IF branch_exists_locally
                  THEN BranchExists(Git.local)
                  ELSE ~BranchExists(Git.local) /\ BranchExists(Git.upstream)
           head == IF branch_exists_locally THEN Git.local ELSE Git.upstream
       IN \E ok \in Outcomes(cmd, can) :
           /\ ops' = Append(ops, Op(CurRepo, cmd, ok, ""))
           /\ IF ok
              THEN /\ SetGit([Git EXCEPT !.local = head, !.wt = head.files])
                   /\ uPc' = IF branch_exists_locally THEN "status" ELSE "patch"
                   /\ UNCHANGED <<no_changes_log, uIdx, branch_exists_locally,
                                  files_changed, add_i, commit_sha>>
              ELSE /\ RecordNoChanges(BRANCH_NOT_FOUND)
                   /\ NextRepository
                   /\ UNCHANGED world
    /\ UNCHANGED <<uRepos, commit_log, updConfig, notUpdater>>

\* `success and 'have diverged' in status_output or 'Your branch is ahead
\* of' in status_output`: `and` binds tighter than `or`.
ResetsOnDivergedOnly(success, status_output) ==
    success /\ status_output = DIVERGED

ResetsOn(success, status_output) ==
    (success /\ status_output = DIVERGED) \/ status_output = AHEAD

\* What run_git_command returns as output when git status fails (stderr).
STATUS_STDERR == "fatal"

\* git status, for a branch that existed locally: on to the reset or to the
\* pull.
Status ==
    /\ uPc = "status"
    /\ \E ok \in Outcomes("status", TRUE) :
           LET status_output == IF ok THEN StatusOutput(Git) ELSE STATUS_STDERR
           IN /\ ops' = Append(ops, Op(CurRepo, "status", ok, status_output))
              /\ uPc' = IF ResetsOn(ok, status_output) THEN "reset" ELSE "pull"
    /\ UNCHANGED <<world, uRepos, uIdx, branch_exists_locally, files_changed, add_i,
                   commit_sha, commit_log, no_changes_log, updConfig, notUpdater>>

\* A failed reset is only warned about, as a failed pull is.
ResetFailureGoesOn ==
    /\ uPc = "reset"
    /\ \E ok \in Outcomes("reset --hard", TRUE) :
           /\ ops' = Append(ops, Op(CurRepo, "reset --hard", ok, ""))
           /\ IF ok
              THEN SetGit([Git EXCEPT !.local = Git.upstream,
                                      !.wt = Git.upstream.files])
              ELSE UNCHANGED world
    /\ uPc' = "patch"
    /\ UNCHANGED <<no_changes_log, uIdx, branch_exists_locally, files_changed,
                   add_i, commit_sha, uRepos, commit_log, updConfig, notUpdater>>

\* git reset --hard upstream/<branch>; a failure ends checkout_and_pull with
\* False.
Reset ==
    /\ uPc = "reset"
    /\ \E ok \in Outcomes("reset --hard", TRUE) :
           /\ ops' = Append(ops, Op(CurRepo, "reset --hard", ok, ""))
           /\ IF ok
              THEN /\ SetGit([Git EXCEPT !.local = Git.upstream,
                                         !.wt = Git.upstream.files])
                   /\ uPc' = "patch"
                   /\ UNCHANGED <<no_changes_log, uIdx, branch_exists_locally,
                                  files_changed, add_i, commit_sha>>
              ELSE /\ RecordNoChanges(BRANCH_NOT_FOUND)
                   /\ NextRepository
                   /\ UNCHANGED world
    /\ UNCHANGED <<uRepos, commit_log, updConfig, notUpdater>>

\* A failed pull ends checkout_and_pull with False, as a failed reset does.
PullFailureAborts ==
    /\ uPc = "pull"
    /\ LET can == IsPrefix(Git.local.hist, Git.upstream.hist)
                      \/ IsPrefix(Git.upstream.hist, Git.local.hist)
       IN \E ok \in Outcomes("pull", can) :
           /\ ops' = Append(ops, Op(CurRepo, "pull", ok, ""))
           /\ IF ok
              THEN /\ IF IsPrefix(Git.local.hist, Git.upstream.hist)
                      THEN SetGit([Git EXCEPT !.local = Git.upstream,
                                              !.wt = Git.upstream.files])
                      ELSE UNCHANGED world
                   /\ uPc' = "patch"
                   /\ UNCHANGED <<no_changes_log, uIdx, branch_exists_locally,
                                  files_changed, add_i, commit_sha>>
              ELSE /\ RecordNoChanges(BRANCH_NOT_FOUND)
                   /\ NextRepository
                   /\ UNCHANGED world
    /\ UNCHANGED <<uRepos, commit_log, updConfig, notUpdater>>

\* git pull upstream <branch>: a fast-forward when the branch is behind,
\* nothing when it is ahead, a failure when the two have diverged (both
\* sides changed the manifests); a failure is only warned about.
Pull ==
    /\ uPc = "pull"
    /\ LET can == IsPrefix(Git.local.hist, Git.upstream.hist)
                      \/ IsPrefix(Git.upstream.hist, Git.local.hist)
       IN \E ok \in Outcomes("pull", can) :
           /\ ops' = Append(ops, Op(CurRepo, "pull", ok, ""))
           /\ IF ok /\ IsPrefix(Git.local.hist, Git.upstream.hist)
              THEN SetGit([Git EXCEPT !.local = Git.upstream,
                                      !.wt = Git.upstream.files])
              ELSE UNCHANGED world
    /\ uPc' = "patch"
    /\ UNCHANGED <<uRepos, uIdx, branch_exists_locally, files_changed, add_i,
                   commit_sha, commit_log, no_changes_log, updConfig, notUpdater>>

\* process_repository after checkout_and_pull: find_sc_files, the loop of
\* update_yaml_file over them, and the head of commit_and_push (nothing to
\* do without changed files; in a dry run it prints and returns True).
PatchFiles ==
    /\ uPc = "patch"
    /\ LET sc_files == find_sc_files(Git.wt)
           names == NamesOf(sc_files)
           r == UpdateFiles(Git.wt, {names[i] : i \in 1..Len(names)}, dry_run)
           changed == InOrderOf(names, r.changed)
       IN IF sc_files = <<>>
          THEN /\ RecordNoChanges(NO_SC_FILES)
               /\ NextRepository
               /\ UNCHANGED <<world, ops>>
          ELSE /\ SetGit([Git EXCEPT !.wt = r.files])
               /\ ops' = ops \o WriteOps(CurRepo, InOrderOf(names, r.written))
               /\ IF changed = <<>>
                  THEN RecordNoChanges(ALREADY_MAIN) /\ NextRepository
                  ELSE IF dry_run
                  THEN NextRepository /\ UNCHANGED no_changes_log
                  ELSE /\ uPc' = "add"
                       /\ files_changed' = changed
                       /\ add_i' = 1
                       /\ UNCHANGED <<no_changes_log, uIdx, branch_exists_locally,
                                      commit_sha>>
    /\ UNCHANGED <<uRepos, commit_log, updConfig, notUpdater>>

\* git add <file>, for each changed file; a failure ends commit_and_push.
Add ==
    /\ uPc = "add"
    /\ \E ok \in Outcomes("add", TRUE) :
           /\ ops' = Append(ops, Op(CurRepo, "add", ok, files_changed[add_i]))
           /\ IF ~ok THEN NextRepository
              ELSE IF add_i < Len(files_changed)
              THEN /\ add_i' = add_i + 1
                   /\ UNCHANGED <<uPc, uIdx, branch_exists_locally, files_changed,
                                  commit_sha>>
              ELSE /\ uPc' = "commit"
                   /\ UNCHANGED <<add_i, uIdx, branch_exists_locally, files_changed,
                                  commit_sha>>
    /\ UNCHANGED <<world, uRepos, commit_log, no_changes_log, updConfig, notUpdater>>

\* The result of git commit is not looked at: rev-parse HEAD and push follow.
CommitIgnoresFailure ==
    /\ uPc = "commit"
    /\ \E ok \in Outcomes("commit", Git.wt # Git.local.files) :
           /\ ops' = Append(ops, Op(CurRepo, "commit", ok, ""))
           /\ IF ok
              THEN SetGit([Git EXCEPT
                       !.local = [hist |-> Append(Git.local.hist,
                                                  NewCommitId(Git.local.hist)),
                                  files |-> Git.wt]])
              ELSE UNCHANGED world
    /\ uPc' = "rev_head"
    /\ UNCHANGED <<uIdx, branch_exists_locally, files_changed, add_i, commit_sha,
                   uRepos, commit_log, no_changes_log, updConfig, notUpdater>>

\* git commit -m ...: fails when the added files do not differ from HEAD
\* (nothing to commit); a failure ends commit_and_push.
Commit ==
    /\ uPc = "commit"
    /\ \E ok \in Outcomes("commit", Git.wt # Git.local.files) :
           /\ ops' = Append(ops, Op(CurRepo, "commit", ok, ""))
           /\ IF ok
              THEN /\ SetGit([Git EXCEPT
                          !.local = [hist |-> Append(Git.local.hist,
                                                     NewCommitId(Git.local.hist)),
                                     files |-> Git.wt]])
                   /\ uPc' = "rev_head"
                   /\ UNCHANGED <<uIdx, branch_exists_locally, files_changed, add_i,
                                  commit_sha>>
              ELSE NextRepository /\ UNCHANGED world
    /\ UNCHANGED <<uRepos, commit_log, no_changes_log, updConfig, notUpdater>>

\* git rev-parse HEAD: the commit's hash, or "unknown".
RevParseHead ==
    /\ uPc = "rev_head"
    /\ \E ok \in Outcomes("rev-parse HEAD", TRUE) :
           /\ ops' = Append(ops, Op(CurRepo, "rev-parse HEAD", ok, ""))
           /\ commit_sha' = IF ok THEN Git.local.hist[Len(Git.local.hist)]
                            ELSE UNKNOWN_SHA
    /\ uPc' = "push"
    /\ UNCHANGED <<world, uRepos, uIdx, branch_exists_locally, files_changed, add_i,
                   commit_log, no_changes_log, updConfig, notUpdater>>

\* A rejected push ends the run: the repositories after this one are left.
PushFailureEndsRun ==
    /\ uPc = "push"
    /\ \E ok \in Outcomes("push", IsPrefix(Git.upstream.hist, Git.local.hist)) :
           /\ ops' = Append(ops, Op(CurRepo, "push", ok, ""))
           /\ IF ok
              THEN /\ SetGit([Git EXCEPT !.upstream = Git.local])
                   /\ commit_log' = Append(commit_log,
                                           [repo |-> CurRepo, sha |-> commit_sha])
                   /\ NextRepository
              ELSE /\ uPc' = "done"
                   /\ uIdx' = uIdx + 1
                   /\ branch_exists_locally' = FALSE
                   /\ files_changed' = <<>>
                   /\ add_i' = 0
                   /\ commit_sha' = UNKNOWN_SHA
                   /\ UNCHANGED <<world, commit_log>>
    /\ UNCHANGED <<uRepos, no_changes_log, updConfig, notUpdater>>

\* The entry is appended to commit_log whatever the push returned.
PushRecordsAlways ==
    /\ uPc = "push"
    /\ \E ok \in Outcomes("push", IsPrefix(Git.upstream.hist, Git.local.hist)) :
           /\ ops' = Append(ops, Op(CurRepo, "push", ok, ""))
           /\ commit_log' = Append(commit_log, [repo |-> CurRepo, sha |-> commit_sha])
           /\ IF ok
              THEN SetGit([Git EXCEPT !.upstream = Git.local])
              ELSE UNCHANGED world
    /\ NextRepository
    /\ UNCHANGED <<uRepos, no_changes_log, updConfig, notUpdater>>

\* git push upstream <branch>: rejected unless the remote branch is an
\* ancestor; success appends (repo, commit_sha) to commit_log.
Push ==
    /\ uPc = "push"
    /\ \E ok \in Outcomes("push", IsPrefix(Git.upstream.hist, Git.local.hist)) :
           /\ ops' = Append(ops, Op(CurRepo, "push", ok, ""))
           /\ IF ok
              THEN /\ SetGit([Git EXCEPT !.upstream = Git.local])
                   /\ commit_log' = Append(commit_log,
                                           [repo |-> CurRepo, sha |-> commit_sha])
              ELSE UNCHANGED <<world, commit_log>>
    /\ NextRepository
    /\ UNCHANGED <<uRepos, no_changes_log, updConfig, notUpdater>>

NextUpdater ==
    \/ RunStart
    \/ Fetch
    \/ RevParseLocal
    \/ RevParseUpstream
    \/ Checkout
    \/ Status
    \/ Reset
    \/ Pull
    \/ PatchFiles
    \/ Add
    \/ Commit
    \/ RevParseHead
    \/ Push

\* The working copies under the parent directory.
REPO_A == "chrome-service"
REPO_B == "notifications-backend"
REPO_PLAIN == "not-a-git-dir"
REPO_GONE == "missing-dir"

RepoNames == {REPO_A, REPO_B, REPO_PLAIN, REPO_GONE}

File(name, content) == [name |-> name, content |-> content]

\* The .tekton directory of a commit.
TREE_V1 == <<File("app-sc.yaml", Manifest(FALSE, "plain", URL_V1))>>
TREE_V12 == <<File("app-sc.yaml", Manifest(FALSE, "plain", URL_V12))>>
TREE_MAIN == <<File("app-sc.yaml", Manifest(FALSE, "plain", URL_MAIN))>>
TREE_TWO ==
    <<File("app-sc.yml", Manifest(FALSE, "plain", URL_V1)),
      File("build.yaml", Manifest(FALSE, "plain", URL_V1)),
      File("app-sc-pr.yaml", Manifest(TRUE, "dquoted", URL_V12))>>
TREE_ESCAPED == <<File("app-sc.yaml", Manifest(FALSE, "escaped", URL_V1))>>
TREE_BROKEN ==
    <<File("app-sc.yaml", MANIFEST_MALFORMED),
      File("app-sc.yml", Manifest(FALSE, "plain", URL_V1))>>
TREE_NO_SC == <<File("build.yaml", Manifest(FALSE, "plain", URL_V1))>>

BaseTrees == {TREE_V1, TREE_MAIN, TREE_TWO, TREE_ESCAPED, TREE_BROKEN, TREE_NO_SC}

\* The branch in a working copy and on the remote: absent, in step, one
\* behind, one ahead, or each with a commit of its own on the base commit.
Clone(exists, git, local, upstream) ==
    [exists |-> exists, is_git |-> git, local |-> local, upstream |-> upstream,
     wt |-> <<>>]

Branches(base) ==
    LET b0 == [hist |-> <<"base">>, files |-> base]
        l1 == [hist |-> <<"base", "local1">>, files |-> TREE_MAIN]
        u1 == [hist |-> <<"base", "upstream1">>, files |-> TREE_V12]
    IN { <<NoBranch, NoBranch>>, <<b0, NoBranch>>, <<NoBranch, b0>>, <<b0, b0>>,
         <<b0, u1>>, <<l1, b0>>, <<l1, u1>> }

Clones(trees) ==
    { Clone(TRUE, TRUE, p[1], p[2]) : p \in UNION {Branches(t) : t \in trees} }

\* The second working copy: the branch in step, or only on the remote.
SecondClones ==
    LET b0 == [hist |-> <<"base">>, files |-> TREE_V1]
    IN { Clone(TRUE, TRUE, b0, b0), Clone(TRUE, TRUE, NoBranch, b0) }

Worlds ==
    { [r \in RepoNames |->
          CASE r = REPO_A -> a
            [] r = REPO_B -> b
            [] r = REPO_PLAIN -> Clone(TRUE, FALSE, NoBranch, NoBranch)
            [] r = REPO_GONE -> Clone(FALSE, FALSE, NoBranch, NoBranch)] :
      a \in Clones(BaseTrees), b \in SecondClones }

RepoLists ==
    { <<>>, <<REPO_A>>, <<REPO_GONE, REPO_B, REPO_PLAIN, REPO_A>> }

InitUpdater ==
    /\ uPc = "start"
    /\ dry_run \in BOOLEAN
    /\ specific_repos \in RepoLists
    /\ parent_exists = TRUE
    /\ listing = <<REPO_A, REPO_PLAIN, REPO_B>>
    /\ world \in Worlds
    /\ gitFaults = GitCommands
    /\ uRepos = <<>>
    /\ uIdx = 0
    /\ branch_exists_locally = FALSE
    /\ files_changed = <<>>
    /\ add_i = 0
    /\ commit_sha = UNKNOWN_SHA
    /\ commit_log = <<>>
    /\ no_changes_log = <<>>
    /\ ops = <<>>
    /\ runs = <<>>

\* update_tekton_sc.main is started again on the same working copies: a new
\* TektonUpdater with empty logs; what the run before it did is kept for
\* comparison.
MaxRuns == 2

RunAgain ==
    /\ uPc = "done"
    /\ Len(runs) + 1 < MaxRuns
    /\ runs' = Append(runs, [commit_log |-> commit_log,
                             no_changes_log |-> no_changes_log, ops |-> ops])
    /\ uPc' = "start"
    /\ uRepos' = <<>>
    /\ uIdx' = 0
    /\ commit_log' = <<>>
    /\ no_changes_log' = <<>>
    /\ ops' = <<>>
    /\ UNCHANGED <<dry_run, specific_repos, parent_exists, listing, world, gitFaults,
                   branch_exists_locally, files_changed, add_i, commit_sha,
                   notUpdater>>

NextTwice == NextUpdater \/ RunAgain

\* Manifests beside one another, and a URL inside a URL.
TREE_MIXED ==
    <<File("app-sc.yaml", Manifest(FALSE, "plain", URL_V1)),
      File("app-sc-pr.yaml", Manifest(FALSE, "escaped", URL_V1))>>
TREE_NESTED == <<File("app-sc.yaml", Manifest(FALSE, "plain", URL_NESTED))>>

\* A manifest without the annotation, and one that does not parse.
TREE_NO_ANNOTATION == <<File("app-sc.yaml", MANIFEST_NO_PIPELINE)>>
TREE_UNPARSED == <<File("app-sc.yaml", MANIFEST_MALFORMED)>>

\* A manifest that does not parse beside one whose URL is written with
\* escapes.
TREE_BROKEN_ESCAPED ==
    <<File("app-sc.yaml", MANIFEST_MALFORMED),
      File("app-sc.yml", Manifest(FALSE, "escaped", URL_V1))>>

TwiceTrees ==
    BaseTrees \cup {TREE_MIXED, TREE_NESTED, TREE_NO_ANNOTATION, TREE_UNPARSED,
                    TREE_BROKEN_ESCAPED}

TwiceWorlds ==
    { [r \in RepoNames |->
          CASE r = REPO_A -> a
            [] r = REPO_B -> Clone(TRUE, TRUE, NoBranch, NoBranch)
            [] r = REPO_PLAIN -> Clone(TRUE, FALSE, NoBranch, NoBranch)
            [] r = REPO_GONE -> Clone(FALSE, FALSE, NoBranch, NoBranch)] :
      a \in Clones(TwiceTrees) }

\* Two runs, not dry runs, on one repository, with no git command failing
\* for a reason outside the working copy.
InitTwice ==
    /\ uPc = "start"
    /\ dry_run = FALSE
    /\ specific_repos = <<REPO_A>>
    /\ parent_exists = TRUE
    /\ listing = <<REPO_A, REPO_PLAIN, REPO_B>>
    /\ world \in TwiceWorlds
    /\ gitFaults = {}
    /\ uRepos = <<>>
    /\ uIdx = 0
    /\ branch_exists_locally = FALSE
    /\ files_changed = <<>>
    /\ add_i = 0
    /\ commit_sha = UNKNOWN_SHA
    /\ commit_log = <<>>
    /\ no_changes_log = <<>>
    /\ ops = <<>>
    /\ runs = <<>>

----------------------------------------------------------------------------
(* coordinator: main, check_stale_services and update_stale_repos          *)

SHARED_REPO == "notifications-backend"

\* The services that live in one shared repository.
SharedServices ==
    {"notifications-aggregator", "notifications-connector-email",
     "notifications-engine-sc", "notifications-recipients-resolver"}

\* map_service_to_repo: service_to_repo.get(service_name, service_name).
map_service_to_repo(service_name) ==
    IF service_name \in SharedServices THEN SHARED_REPO ELSE service_name

\* The names the model uses, in the order Python's sorted gives them.
SortedNames ==
    <<"chrome-service", "missing-dir", "not-a-git-dir", "notifications-aggregator",
      "notifications-backend", "notifications-engine-sc">>

Range(s) == {s[i] : i \in 1..Len(s)}

\* sorted(set(names)).
SortedSet(names) == SelectSeq(SortedNames, LAMBDA n : n \in names)

\* The services handed over as they are, with no mapping to repositories.
repo_names_unmapped(stale) == SortedSet(Range(stale))

\* One repository name per stale service, in the order of the services.
repo_names_per_service(stale) ==
    [i \in 1..Len(stale) |-> map_service_to_repo(stale[i])]

\* update_stale_repos: sorted(set([map_service_to_repo(svc) for svc in
\* stale_services])).
repo_names(stale) ==
    SortedSet({map_service_to_repo(stale[i]) : i \in 1..Len(stale)})

CoordIdle ==
    /\ coPc = "idle"
    /\ config = <<>>
    /\ stale_services = <<>>

\* No registry is asked.
NoRegistry == registry = {}

\* main up to the call of search_by_date_range: load_config and
\* load_repo_config exit with status 1 on an unreadable file, an empty
\* mapping exits with status 1, and check_stale_services computes the date
\* range and starts the search.
CoMain ==
    /\ coPc = "start"
    /\ IF ~config.loaded \/ ~config.repos_loaded \/ config.repos = <<>>
       THEN /\ coPc' = "exit 1"
            /\ UNCHANGED <<quayVars, rangeVars>>
       ELSE /\ coPc' = "check"
            /\ qPc' = "loop"
            /\ repos' = config.repos
            /\ services' = config.services
            /\ start_date' = config.today_minus_days
            /\ end_date' = config.today
            /\ idx' = 0
            /\ UNCHANGED <<page, all_tags, repos_with_updates, repos_without_updates,
                           repos_with_errors, found_any, requests>>
    /\ UNCHANGED <<config, registry, stale_services, tagVars, patchVars, updVars>>

\* main after check_stale_services has returned repos_without_updates:
\* --check-only exits with status 0; with stale services and no
\* git_repos_dir main exits with status 1; with stale services
\* update_stale_repos builds the TektonUpdater and calls run; with none the
\* workflow is complete.
CoStep2 ==
    /\ coPc = "check"
    /\ qPc = "done"
    /\ stale_services' = repos_without_updates
    /\ IF config.check_only
       THEN /\ coPc' = "exit 0"
            /\ UNCHANGED <<uPc, dry_run, specific_repos>>
       ELSE IF repos_without_updates = <<>>
       THEN /\ coPc' = "complete"
            /\ UNCHANGED <<uPc, dry_run, specific_repos>>
       ELSE IF ~config.git_repos_dir
       THEN /\ coPc' = "exit 1"
            /\ UNCHANGED <<uPc, dry_run, specific_repos>>
       ELSE /\ coPc' = "update"
            /\ uPc' = "start"
            /\ dry_run' = config.dry_run
            /\ specific_repos' = repo_names(repos_without_updates)
    /\ UNCHANGED <<config, registry, parent_exists, listing, world, gitFaults, uRepos,
                   uIdx, branch_exists_locally, files_changed, add_i, commit_sha,
                   commit_log, no_changes_log, ops, runs, tagVars, rangeVars,
                   quayVars, patchVars>>

\* updater.run() has returned: WORKFLOW COMPLETE.
CoComplete ==
    /\ coPc = "update"
    /\ uPc = "done"
    /\ coPc' = "complete"
    /\ UNCHANGED <<config, registry, stale_services, tagVars, rangeVars, quayVars,
                   patchVars, updVars>>

NextCoordinator == CoMain \/ CoStep2 \/ CoComplete

\* What the registry answers in a run of the coordinator.
CoRegistry ==
    { [kind |-> "ok", tags |-> <<TAG_IN>>, has_additional |-> "false"],
      [kind |-> "ok", tags |-> <<TAG_OUT>>, has_additional |-> "true"],
      [kind |-> "ok", tags |-> <<TAG_BAD, TAG_BAD2>>, has_additional |-> "absent"],
      [kind |-> "ok", tags |-> <<>>, has_additional |-> "false"],
      [kind |-> "http", tags |-> <<>>, has_additional |-> "absent"] }

CoMappings ==
    { <<>>,
      <<[service |-> SVC_A, repo_url |-> URL_A], [service |-> SVC_B, repo_url |-> URL_B]>>,
      <<[service |-> SVC_A, repo_url |-> URL_A], [service |-> SVC_C, repo_url |-> URL_BAD],
        [service |-> SVC_B, repo_url |-> URL_B]>>,
      <<[service |-> SVC_C, repo_url |-> URL_C], [service |-> SVC_B, repo_url |-> URL_B]>> }

CoConfigs ==
    { c \in [loaded : BOOLEAN, repos_loaded : BOOLEAN, repos : CoMappings,
             services : {{}, {SVC_B, SVC_C}}, dry_run : BOOLEAN,
             check_only : BOOLEAN, git_repos_dir : BOOLEAN,
             today_minus_days : {RANGE_START}, today : {RANGE_END}] :
        /\ ~c.loaded =>
               /\ ~c.repos_loaded /\ c.repos = <<>> /\ c.services = {}
               /\ ~c.dry_run /\ ~c.check_only /\ ~c.git_repos_dir
        /\ ~c.repos_loaded =>
               /\ c.repos = <<>> /\ c.services = {}
               /\ ~c.dry_run /\ ~c.check_only /\ ~c.git_repos_dir }

\* The working copies under git_repos_dir: the first with a branch that has
\* diverged from upstream, the second in step or without the branch.
CoWorlds ==
    LET base == [hist |-> <<"base">>, files |-> TREE_V1]
        l1 == [hist |-> <<"base", "local1">>, files |-> TREE_MAIN]
        u1 == [hist |-> <<"base", "upstream1">>, files |-> TREE_V12]
    IN { [r \in RepoNames |->
             CASE r = REPO_A -> Clone(TRUE, TRUE, l1, u1)
               [] r = REPO_B -> b
               [] r = REPO_PLAIN -> Clone(TRUE, FALSE, NoBranch, NoBranch)
               [] r = REPO_GONE -> Clone(FALSE, FALSE, NoBranch, NoBranch)] :
         b \in SecondClones }

InitCoordinator ==
    /\ coPc = "start"
    /\ config \in CoConfigs
    /\ registry = CoRegistry
    /\ stale_services = <<>>
    /\ uPc = "idle"
    /\ dry_run = FALSE
    /\ specific_repos = <<>>
    /\ parent_exists = TRUE
    /\ listing = <<REPO_A, REPO_PLAIN, REPO_B>>
    /\ world \in CoWorlds
    /\ gitFaults = {"push"}
    /\ uRepos = <<>>
    /\ uIdx = 0
    /\ branch_exists_locally = FALSE
    /\ files_changed = <<>>
    /\ add_i = 0
    /\ commit_sha = UNKNOWN_SHA
    /\ commit_log = <<>>
    /\ no_changes_log = <<>>
    /\ ops = <<>>
    /\ runs = <<>>

----------------------------------------------------------------------------
(* Claims about the coordinator (Spec) *)

\* C9: the list the coordinator acts on is repos_without_updates; git runs
\* only in a repository that a service of repos_without_updates maps to, so
\* a service with updates or with an error causes no git command by itself;
\* and the repository of every service of repos_without_updates is in the
\* list given to TektonUpdater.
C9_OnlyStaleServicesAreReconciled ==
    /\ coPc \in {"start", "check"} => ops = <<>> /\ uPc = "idle"
    /\ coPc \in {"update", "complete", "exit 0", "exit 1"} /\ qPc = "done" =>
           stale_services = repos_without_updates
    /\ \A i \in 1..Len(ops) :
           \E s \in NotUpdatedServices : map_service_to_repo(s) = ops[i].repo
    /\ \A i \in 1..Len(uRepos) :
           \E s \in NotUpdatedServices : map_service_to_repo(s) = uRepos[i]
    /\ \A s \in UpdatedServices \cup ErroredServices :
           (\E i \in 1..Len(ops) : ops[i].repo = map_service_to_repo(s)) =>
               \E t \in NotUpdatedServices :
                   map_service_to_repo(t) = map_service_to_repo(s)
    /\ uPc # "idle" =>
           /\ Range(specific_repos) = {map_service_to_repo(s) : s \in NotUpdatedServices}
           /\ \A i, j \in 1..Len(specific_repos) :
                  i # j => specific_repos[i] # specific_repos[j]

\* One service has an image in range, one has an error and one, stale, maps
\* to the shared repository: git has run there and nowhere else.
C9_Witness ==
    /\ coPc = "complete"
    /\ UpdatedServices = {SVC_A}
    /\ ErroredServices = {SVC_C}
    /\ NotUpdatedServices = {SVC_B}
    /\ specific_repos = <<REPO_B>>
    /\ \E i \in 1..Len(ops) : ops[i].repo = REPO_B /\ ops[i].op = "push" /\ ops[i].ok
    /\ \A i \in 1..Len(ops) : ops[i].repo # REPO_A

\* The configuration lacks a required input: the config file or the
\* repository mapping cannot be read, the mapping is empty, or git_repos_dir
\* is not set.
ConfigurationError ==
    \/ ~config.loaded
    \/ ~config.repos_loaded
    \/ config.repos = <<>>
    \/ ~config.git_repos_dir

\* C12: a run with a configuration error asks the registry nothing and runs
\* no git command, and it ends with exit status 1, never with status 0.
C12_ConfigErrorExitsBeforeAnyActivity ==
    /\ coPc = "exit 1" => requests = <<>> /\ ops = <<>>
    /\ ConfigurationError =>
           /\ requests = <<>>
           /\ ops = <<>>
           /\ coPc \notin {"complete", "exit 0"}

\* The number of entries of a sequence that satisfy a condition.
Count(seq, Cond(_)) == Cardinality({i \in 1..Len(seq) : Cond(seq[i])})

\* C28: the list given to TektonUpdater, one name per repository that a
\* stale service maps to, and the list of repositories the run goes through
\* hold no name twice; in a repository git fetch is issued at most once, no
\* file is written twice, git commit and git push are issued at most once,
\* and the repository has at most one outcome recorded.
C28_SharedRepositoryHandledOnce ==
    /\ uPc # "idle" =>
           /\ Len(specific_repos)
                  = Cardinality({map_service_to_repo(stale_services[i]) :
                                    i \in 1..Len(stale_services)})
           /\ Cardinality(Range(specific_repos)) = Len(specific_repos)
    /\ Cardinality(Range(uRepos)) = Len(uRepos)
    /\ \A r \in RepoNames :
           /\ \A c \in {"fetch", "commit", "push"} :
                  Count(ops, LAMBDA o : o.repo = r /\ o.op = c) <= 1
           /\ \A f \in {ops[i].arg : i \in 1..Len(ops)} :
                  Count(ops, LAMBDA o : o.repo = r /\ o.op = "write" /\ o.arg = f) <= 1
           /\ Count(commit_log, LAMBDA e : e.repo = r)
                  + Count(no_changes_log, LAMBDA e : e.repo = r) <= 1

\* Two stale services live in the shared repository: it is the one target,
\* and it was fetched, committed and pushed once.
C28_Witness ==
    /\ coPc = "complete"
    /\ stale_services = <<SVC_C, SVC_B>>
    /\ specific_repos = <<SHARED_REPO>>
    /\ uRepos = <<SHARED_REPO>>
    /\ Count(ops, LAMBDA o : o.repo = SHARED_REPO /\ o.op = "fetch") = 1
    /\ Count(ops, LAMBDA o : o.repo = SHARED_REPO /\ o.op = "push" /\ o.ok) = 1
    /\ Len(commit_log) = 1

\* The place of a service in the mapping and of a repository in the list
\* the run goes through.
ServicePlace(svc) == CHOOSE k \in 1..Len(repos) : repos[k].service = svc
RepositoryPlace(r) == CHOOSE k \in 1..Len(uRepos) : uRepos[k] = r

\* The number of buckets entries a service has.
BucketEntries(svc) ==
    Count(repos_with_updates, LAMBDA e : e.service = svc)
        + Count(repos_without_updates, LAMBDA e : e = svc)
        + Count(repos_with_errors, LAMBDA e : e.service = svc)

\* The services are gone through in the order of the mapping: the requests
\* follow it, no page of a service is asked for twice, a request that
\* failed is the last for its service, every service the loop has passed
\* has one bucket entry and the others none, and at the end of the search
\* every service that passes the filter has been gone through.
ServicesVisitedOnceInOrder ==
    /\ \A i, j \in 1..Len(requests) :
           i < j =>
               /\ ServicePlace(requests[i].service) <= ServicePlace(requests[j].service)
               /\ requests[i].service = requests[j].service =>
                      /\ requests[i].page < requests[j].page
                      /\ requests[i].kind = "ok"
    /\ \A k \in 1..Len(repos) :
           BucketEntries(repos[k].service)
               = IF k <= idx /\ ~FilteredOut(repos[k].service, services) THEN 1 ELSE 0
    /\ qPc = "done" =>
           /\ idx = Len(repos)
           /\ \A k \in 1..Len(repos) :
                  (/\ ~FilteredOut(repos[k].service, services)
                   /\ parse_quay_repo(repos[k].repo_url).ok)
                      => RequestsOf(repos[k].service) # <<>>

\* The repositories are gone through in the order of the list: the git
\* commands follow it, no command is issued twice in a repository, and at
\* the end of the run every repository of the list has been gone through,
\* whatever failed in the ones before it.
RepositoriesVisitedOnceInOrder ==
    /\ \A i, j \in 1..Len(ops) :
           i < j =>
               /\ RepositoryPlace(ops[i].repo) <= RepositoryPlace(ops[j].repo)
               /\ ~(/\ ops[i].repo = ops[j].repo
                     /\ ops[i].op = ops[j].op
                     /\ ops[i].arg = ops[j].arg)
    /\ \A i \in 1..Len(ops) : RepositoryPlace(ops[i].repo) <= uIdx + 1
    /\ Cardinality(Range(uRepos)) = Len(uRepos)
    /\ uPc = "done" =>
           /\ uIdx = Len(uRepos)
           /\ \A k \in 1..Len(uRepos) :
                  \E i \in 1..Len(ops) : ops[i].repo = uRepos[k] /\ ops[i].op = "fetch"

\* main has returned.
RunOver == coPc \in {"complete", "exit 0", "exit 1"}

\* C26: throughout a run the services and the repositories are gone
\* through once and in order, with no request and no git command issued a
\* second time and a failure leaving the later services and repositories
\* to be processed; and every run, each of whose steps is taken once it is
\* due, comes to its end.
C26_RunVisitsEachUnitOnceAndEnds ==
    /\ [](ServicesVisitedOnceInOrder /\ RepositoriesVisitedOnceInOrder)
    /\ <>RunOver

\* A run that is over: a request for the first service failed and the
\* second service was asked about all the same; the push of the first
\* repository was rejected and the second repository was fetched all the
\* same.
C26_Witness ==
    /\ coPc = "complete"
    /\ \E i, j \in 1..Len(requests) :
           /\ i < j
           /\ requests[i].kind = "http"
           /\ requests[j].service # requests[i].service
    /\ Len(uRepos) = 2
    /\ \E i, j \in 1..Len(ops) :
           /\ i < j
           /\ ops[i].repo = uRepos[1] /\ ops[i].op = "push" /\ ~ops[i].ok
           /\ ops[j].repo = uRepos[2] /\ ops[j].op = "fetch"

----------------------------------------------------------------------------
(* Claims about update_yaml_file (SpecPatch) *)

\* The annotation's URL has main where the version tag stands: a segment
\* raw followed by the segment main.
HasMainForVersion(url) ==
    LET segs == Split(url, "/")
    IN \E k \in 1..(Len(segs) - 1) : segs[k] = RAW /\ segs[k + 1] = MAIN

\* C10: update_yaml_file is idempotent: on a file whose pipeline URL already
\* has main for the version tag it returns False and leaves the content as
\* it is; a second application (not a dry run) returns False and leaves the
\* content of the first.
C10_PatchIdempotent ==
    \A i \in 1..Len(pHistory) :
        LET before == YamlLoad(pHistory[i].before)
        IN /\ (/\ ~before.raised
               /\ before.has_metadata
               /\ before.has_pipeline
               /\ HasMainForVersion(before.url))
              => ~pHistory[i].modified /\ pHistory[i].after = pHistory[i].before
           /\ (~pDry /\ i >= 2)
              => /\ ~pHistory[i].modified
                 /\ pHistory[i].after = pHistory[i - 1].after

\* The segments of https://github.com/<owner>/<repo>/raw/<v-prefixed
\* version>/<rest>, split at '/'.
VERSION_SEGMENT == 7

UrlOfVersionShape(url) ==
    LET segs == Split(url, "/")
    IN /\ Len(segs) > VERSION_SEGMENT
       /\ SubSeq(segs, 1, 3) = <<<<"h","t","t","p","s",":">>, <<>>,
                                 <<"g","i","t","h","u","b",".","c","o","m">>>>
       /\ segs[4] # <<>>
       /\ segs[5] # <<>>
       /\ segs[6] = RAW
       /\ Len(segs[VERSION_SEGMENT]) >= 2
       /\ segs[VERSION_SEGMENT][1] = "v"
       /\ \A k \in 2..Len(segs[VERSION_SEGMENT]) :
              segs[VERSION_SEGMENT][k] \in Digits \cup {"."}

\* The same URL with main for the version segment.
UrlWithMain(url) ==
    Join([Split(url, "/") EXCEPT ![VERSION_SEGMENT] = MAIN], "/")

\* C11: a first, non-dry-run application of update_yaml_file to a manifest
\* whose annotation is a URL of the version shape leaves a file whose
\* annotation is that URL with main for the version, and whose other lines,
\* and the key before the annotation's value, are those of the original.
C11_RewriteTouchesOnlyTheAnnotation ==
    (~pDry /\ Len(pHistory) >= 1) =>
        LET before == pHistory[1].before
            after == pHistory[1].after
            data == YamlLoad(before)
            old_lines == Split(before, "\n")
            new_lines == Split(after, "\n")
        IN (/\ ~data.raised
            /\ data.has_metadata
            /\ data.has_pipeline
            /\ UrlOfVersionShape(data.url))
           => /\ pHistory[1].modified
              /\ YamlLoad(after).url = UrlWithMain(data.url)
              /\ Len(new_lines) = Len(old_lines)
              /\ \A k \in 1..Len(old_lines) :
                     IF StartsWith(old_lines[k], PIPELINE_KEY)
                     THEN StartsWith(new_lines[k], PIPELINE_KEY)
                     ELSE new_lines[k] = old_lines[k]

\* C29: when this is not a dry run, a call of update_yaml_file that reports
\* the file as modified has written it, and the content it left differs from
\* the content it found.
C29_ModifiedMeansContentChanged ==
    \A i \in 1..Len(pHistory) :
        (~pDry /\ pHistory[i].modified) =>
            /\ pHistory[i].wrote
            /\ pHistory[i].after # pHistory[i].before

----------------------------------------------------------------------------
(* Claims about TektonUpdater (SpecUpdater) *)

\* The git subcommands that change the working copy or the remote.
MutatingCommands ==
    {"checkout", "checkout -b", "reset --hard", "pull", "add", "commit", "push"}

OpsOf(repo) == SelectSeq(ops, LAMBDA o : o.repo = repo)

\* The command was issued for the repository and succeeded.
HasOp(repo, op) ==
    \E j \in 1..Len(ops) : ops[j].repo = repo /\ ops[j].op = op /\ ops[j].ok

\* The entries of the audit log for a repository.
OutcomesOf(repo) ==
    Len(SelectSeq(commit_log, LAMBDA e : e.repo = repo))
        + Len(SelectSeq(no_changes_log, LAMBDA e : e.repo = repo))

\* C1: in a dry run no manifest is written and no mutating git subcommand
\* is issued; only fetch, status and rev-parse are.
C1_DryRunIssuesNoMutation ==
    dry_run =>
        \A i \in 1..Len(ops) :
            ops[i].op # "write" /\ ops[i].op \notin MutatingCommands

\* C2: when run is over, every repository find_repositories returned has
\* exactly one entry in commit_log and no_changes_log together, and the two
\* logs together are as long as the list of repositories.
C2_OneOutcomePerRepository ==
    uPc = "done" =>
        /\ \A i \in 1..Len(uRepos) : OutcomesOf(uRepos[i]) = 1
        /\ Len(commit_log) + Len(no_changes_log) = Len(uRepos)

\* C3: when rev-parse --verify upstream/<branch> fails for a repository, the
\* repository is recorded as skipped and no checkout, reset, pull, add,
\* commit or push is issued for it, whether or not the branch exists
\* locally.
C3_NoUpstreamBranchSkips ==
    \A i \in 1..Len(ops) :
        (ops[i].op = "rev-parse --verify upstream" /\ ~ops[i].ok) =>
            /\ \A j \in 1..Len(ops) :
                   ops[j].repo = ops[i].repo =>
                       ops[j].op \notin MutatingCommands /\ ops[j].op # "write"
            /\ \E k \in 1..Len(no_changes_log) :
                   no_changes_log[k] = [repo |-> ops[i].repo, reason |-> BRANCH_NOT_FOUND]
            /\ \A k \in 1..Len(commit_log) : commit_log[k].repo # ops[i].repo

\* The branch exists locally, not on the remote, and the run is over.
C3_Witness ==
    /\ uPc = "done"
    /\ \E i \in 1..Len(ops) :
           /\ ops[i].op = "rev-parse --verify upstream"
           /\ ~ops[i].ok
           /\ BranchExists(world[ops[i].repo].local)
           /\ ~BranchExists(world[ops[i].repo].upstream)
           /\ \E j \in 1..Len(ops) :
                  /\ ops[j].repo = ops[i].repo
                  /\ ops[j].op = "rev-parse --verify"
                  /\ ops[j].ok

\* git status reported, for the repository of ops[i], that the branch and
\* upstream/<branch> have diverged or that the branch is ahead.
ReportsDrift(i) ==
    /\ ops[i].op = "status"
    /\ ops[i].ok
    /\ ops[i].arg \in {DIVERGED, AHEAD}

\* C4: after a status that reports divergence (or the branch ahead) the next
\* command is reset --hard upstream/<branch> and no pull is issued for the
\* repository; once the reset has succeeded, and before any manifest is
\* written, the local branch is the upstream branch: same commits, no
\* local-only commit left, and the working copy holds upstream's files.
C4_DriftIsResetToUpstream ==
    \A i \in 1..Len(ops) :
        ReportsDrift(i) =>
            /\ \E j \in 1..Len(ops) :
                   /\ ops[j].repo = ops[i].repo
                   /\ ops[j].op = "rev-parse --verify"
                   /\ ops[j].ok
                   /\ j < i
            /\ IF i = Len(ops) THEN uPc = "reset"
               ELSE ops[i + 1].op = "reset --hard" /\ ops[i + 1].repo = ops[i].repo
            /\ \A j \in 1..Len(ops) :
                   ops[j].repo = ops[i].repo => ops[j].op # "pull"
            /\ \A j \in 1..Len(ops) :
                   (ops[j].repo = ops[i].repo /\ ops[j].op \in {"write", "add", "commit"})
                       => /\ j > i + 1
                          /\ ops[i + 1].ok
            /\ (i < Len(ops) /\ ops[i + 1].ok) =>
                   /\ i + 1 = Len(ops) => uPc \in {"patch", "fetch", "done"}
                   /\ ~HasOp(ops[i].repo, "commit") =>
                          world[ops[i].repo].local = world[ops[i].repo].upstream
                   /\ ~HasOp(ops[i].repo, "write") =>
                          world[ops[i].repo].wt = world[ops[i].repo].upstream.files

\* A branch with a local-only commit, diverged from upstream, has just been
\* reset: the local-only commit is gone.
C4_Witness ==
    /\ uPc = "patch"
    /\ Len(ops) >= 2
    /\ ReportsDrift(Len(ops) - 1)
    /\ ops[Len(ops) - 1].arg = DIVERGED
    /\ ops[Len(ops)].op = "reset --hard"
    /\ ops[Len(ops)].ok
    /\ world[CurRepo].local.hist = <<"base", "upstream1">>
    /\ world[CurRepo].wt = TREE_V12

\* The repositories process_repository has returned for.
Processed == {uRepos[i] : i \in 1..uIdx}

\* C13: in a dry run every repository processed so far has exactly one entry
\* in the audit log, the repositories whose manifests would be modified
\* among them.
C13_DryRunRecordsEveryRepository ==
    (dry_run /\ uPc # "idle") => \A r \in Processed : OutcomesOf(r) = 1

\* C14: a repository whose checkout (or checkout -b) failed has an entry in
\* the audit log, and the reason recorded is not the one recorded for a
\* branch that is missing on the remote.
C14_CheckoutFailureHasItsOwnReason ==
    \A i \in 1..Len(ops) :
        (ops[i].op \in {"checkout", "checkout -b"} /\ ~ops[i].ok) =>
            /\ \E k \in 1..Len(no_changes_log) : no_changes_log[k].repo = ops[i].repo
            /\ \A k \in 1..Len(no_changes_log) :
                   no_changes_log[k].repo = ops[i].repo =>
                       no_changes_log[k].reason # BRANCH_NOT_FOUND

\* Every git command of a sequence of commands succeeded.
AllSucceeded(log) == \A i \in 1..Len(log) : log[i].ok

\* C17: when the run before pushed a commit for the repository and every
\* git command succeeded, this run writes no file and issues no add, commit
\* or push, git status finds the branch in step with upstream, and the run
\* ends with the repository recorded once, as already on main.
C17_SecondRunChangesNothing ==
    (/\ Len(runs) >= 1
     /\ runs[Len(runs)].commit_log # <<>>
     /\ AllSucceeded(runs[Len(runs)].ops)
     /\ AllSucceeded(ops))
    => /\ Len(runs[Len(runs)].commit_log) = 1
       /\ \A i \in 1..Len(ops) :
              /\ ops[i].op \notin {"write", "add", "commit", "push", "reset --hard"}
              /\ ops[i].op = "status" => ops[i].arg = UP_TO_DATE
       /\ commit_log = <<>>
       /\ uPc = "done" =>
              no_changes_log = <<[repo |-> REPO_A, reason |-> ALREADY_MAIN]>>

\* The commands of commit_and_push issued for a repository, in order.
CommitCommands == {"add", "commit", "rev-parse HEAD", "push"}

CommitOpsOf(repo) ==
    SelectSeq(ops, LAMBDA o : o.repo = repo /\ o.op \in CommitCommands)

WritesOf(repo) == SelectSeq(ops, LAMBDA o : o.repo = repo /\ o.op = "write")

\* C19: for every repository the commands of commit_and_push are one add
\* per modified file, in the order of the files, then commit, rev-parse
\* HEAD and push; a failed add or commit is the last of them, so no push
\* follows and nothing is issued twice; after the failure the run is at the
\* next repository, and at the end every repository has been fetched; a dry
\* run issues none of them.
C19_AddCommitRevParsePush ==
    /\ dry_run => \A i \in 1..Len(ops) : ops[i].op \notin CommitCommands
    /\ \A r \in {uRepos[i] : i \in 1..Len(uRepos)} :
           LET s == CommitOpsOf(r)
               w == WritesOf(r)
           IN /\ s # <<>> => s[1].op = "add"
              /\ \A n \in 1..Len(s) :
                     /\ s[n].op = "add" => n <= Len(w) /\ s[n].arg = w[n].arg
                     /\ (~s[n].ok /\ s[n].op # "rev-parse HEAD") => n = Len(s)
                     /\ n < Len(s) =>
                            CASE s[n].op = "add" ->
                                     s[n + 1].op = (IF n < Len(w) THEN "add" ELSE "commit")
                              [] s[n].op = "commit" -> s[n + 1].op = "rev-parse HEAD"
                              [] s[n].op = "rev-parse HEAD" -> s[n + 1].op = "push"
                              [] OTHER -> FALSE
              /\ (s # <<>> /\ ~s[Len(s)].ok /\ s[Len(s)].op \in {"add", "commit"}) =>
                     \/ uPc = "done"
                     \/ CurRepo # r
    /\ uPc = "done" =>
           \A i \in 1..Len(uRepos) :
               \E j \in 1..Len(ops) : ops[j].repo = uRepos[i] /\ ops[j].op = "fetch"

\* git commit failed for the first repository: nothing was pushed for it,
\* and the second repository was fetched, committed and pushed.
C19_Witness ==
    /\ uPc = "done"
    /\ uRepos = <<REPO_B, REPO_A>>
    /\ \E i \in 1..Len(ops) :
           ops[i].repo = REPO_B /\ ops[i].op = "commit" /\ ~ops[i].ok
    /\ \A i \in 1..Len(ops) : ops[i].repo = REPO_B => ops[i].op # "push"
    /\ LET s == CommitOpsOf(REPO_A)
       IN /\ Len(s) >= 4
          /\ s[Len(s)].op = "push"
          /\ s[Len(s)].ok

\* add for every modified file, commit and push were issued for the
\* repository and succeeded.
AllCommitted(repo) ==
    LET s == CommitOpsOf(repo)
    IN /\ HasOp(repo, "commit")
       /\ HasOp(repo, "push")
       /\ \A n \in 1..Len(s) : s[n].op = "add" => s[n].ok

\* The repository has one entry in commit_log exactly when the run is not a
\* dry run and add, commit and push succeeded for it, and none otherwise.
RecordedIffPushed ==
    \A r \in {uRepos[i] : i \in 1..Len(uRepos)} :
        LET entries == SelectSeq(commit_log, LAMBDA e : e.repo = r)
        IN /\ Len(entries) <= 1
           /\ Len(entries) = 1 <=> (~dry_run /\ AllCommitted(r))

\* The hash of the branch head of the repository's working copy.
HeadOf(repo) == world[repo].local.hist[Len(world[repo].local.hist)]

\* C20, as stated: recorded iff pushed, and the hash recorded is the hash
\* of HEAD after the commit.
C20_RecordedShaIsHead ==
    /\ RecordedIffPushed
    /\ \A k \in 1..Len(commit_log) :
           commit_log[k].sha = HeadOf(commit_log[k].repo)

\* C20, amended: recorded iff pushed, and the hash recorded is the hash of
\* HEAD after the commit when git rev-parse HEAD succeeded, and "unknown"
\* when it failed.
C20_RecordedShaIsHeadOrUnknown ==
    /\ RecordedIffPushed
    /\ \A k \in 1..Len(commit_log) :
           commit_log[k].sha =
               IF HasOp(commit_log[k].repo, "rev-parse HEAD")
               THEN HeadOf(commit_log[k].repo)
               ELSE UNKNOWN_SHA

\* One repository pushed with its hash resolved, the other pushed after a
\* failed git rev-parse HEAD.
C20_Witness ==
    /\ uPc = "done"
    /\ Len(commit_log) = 2
    /\ commit_log[1].sha = UNKNOWN_SHA
    /\ commit_log[2].sha = HeadOf(commit_log[2].repo)
    /\ \E i \in 1..Len(ops) :
           /\ ops[i].repo = commit_log[1].repo
           /\ ops[i].op = "rev-parse HEAD"
           /\ ~ops[i].ok

\* ops[i] ended checkout_and_pull with False: the branch is not on the
\* remote, or the checkout or the reset failed.
EndsReconciliation(i) ==
    /\ ~ops[i].ok
    /\ ops[i].op \in {"rev-parse --verify upstream", "checkout", "checkout -b",
                      "reset --hard"}

\* C21: the command that ends checkout_and_pull with False is the last one
\* issued for its repository, so no manifest is written and nothing is
\* added, committed or pushed; process_repository has returned without
\* patching (the run is at another repository or over); and the repository
\* has one entry in the audit log, in no_changes_log.
C21_FailedReconciliationSkipsPatching ==
    \A i \in 1..Len(ops) :
        EndsReconciliation(i) =>
            /\ \A j \in (i + 1)..Len(ops) : ops[j].repo # ops[i].repo
            /\ \A j \in 1..Len(ops) :
                   ops[j].repo = ops[i].repo =>
                       ops[j].op \notin {"write", "add", "commit", "push"}
            /\ uPc = "done" \/ CurRepo # ops[i].repo
            /\ ops[i].repo \in Processed
            /\ OutcomesOf(ops[i].repo) = 1
            /\ \E k \in 1..Len(no_changes_log) : no_changes_log[k].repo = ops[i].repo

\* The reset failed for the first repository; the second was patched and
\* pushed.
C21_Witness ==
    /\ uPc = "done"
    /\ uRepos = <<REPO_A, REPO_B>>
    /\ \E i \in 1..Len(ops) :
           /\ EndsReconciliation(i)
           /\ ops[i].op = "reset --hard"
           /\ ops[i].repo = REPO_A
    /\ Len(no_changes_log) = 1
    /\ no_changes_log[1].repo = REPO_A
    /\ HasOp(REPO_B, "push")

\* git status, for a branch that existed locally, reported neither
\* divergence nor the branch ahead (or failed).
ReportsNoDrift(i) ==
    /\ ops[i].op = "status"
    /\ ~(ops[i].ok /\ ops[i].arg \in {DIVERGED, AHEAD})

\* C22: after a status that reports no drift the next command is git pull
\* and no reset is issued for the repository; after a failed pull the
\* working copy is as the checkout left it, on the local branch's files,
\* process_repository goes on to patching it, and the repository is never
\* recorded as skipped for a missing branch.
C22_PullFailureGoesOnToPatching ==
    \A i \in 1..Len(ops) :
        /\ ReportsNoDrift(i) =>
               /\ IF i = Len(ops) THEN uPc = "pull" /\ CurRepo = ops[i].repo
                  ELSE ops[i + 1].op = "pull" /\ ops[i + 1].repo = ops[i].repo
               /\ \A j \in 1..Len(ops) :
                      ops[j].repo = ops[i].repo => ops[j].op # "reset --hard"
        /\ (ops[i].op = "pull" /\ ~ops[i].ok) =>
               /\ i = Len(ops) =>
                      \/ /\ uPc = "patch"
                         /\ CurRepo = ops[i].repo
                         /\ world[ops[i].repo].wt = world[ops[i].repo].local.files
                      \/ /\ ops[i].repo \in Processed
                         /\ dry_run \/ OutcomesOf(ops[i].repo) = 1
               /\ i < Len(ops) /\ ops[i + 1].repo = ops[i].repo =>
                      ops[i + 1].op = "write"
               /\ \A k \in 1..Len(no_changes_log) :
                      no_changes_log[k].repo = ops[i].repo =>
                          no_changes_log[k].reason \in {NO_SC_FILES, ALREADY_MAIN}

\* The pull failed and the repository was patched, committed and pushed all
\* the same.
C22_Witness ==
    \E i \in 1..Len(ops) :
        /\ ops[i].op = "pull"
        /\ ~ops[i].ok
        /\ HasOp(ops[i].repo, "write")
        /\ HasOp(ops[i].repo, "push")
        /\ \E k \in 1..Len(commit_log) : commit_log[k].repo = ops[i].repo

\* C23: git status is issued only for a branch that git rev-parse --verify
\* found locally and that was checked out with git checkout; for a branch
\* created with git checkout -b no status, reset or pull is issued, and
\* after a successful checkout -b process_repository goes on to patching:
\* the next command for the repository, if any, comes from the rewrite, and
\* the repository is never recorded as skipped for a missing branch.
C23_NewBranchIsNotReconciled ==
    \A i \in 1..Len(ops) :
        /\ ops[i].op \in {"status", "reset --hard", "pull"} =>
               /\ \E j \in 1..(i - 1) :
                      /\ ops[j].repo = ops[i].repo
                      /\ ops[j].op = "rev-parse --verify"
                      /\ ops[j].ok
               /\ \E j \in 1..(i - 1) :
                      /\ ops[j].repo = ops[i].repo
                      /\ ops[j].op = "checkout"
                      /\ ops[j].ok
        /\ ops[i].op = "checkout -b" =>
               /\ \E j \in 1..(i - 1) :
                      /\ ops[j].repo = ops[i].repo
                      /\ ops[j].op = "rev-parse --verify"
                      /\ ~ops[j].ok
               /\ \A j \in 1..Len(ops) :
                      ops[j].repo = ops[i].repo =>
                          ops[j].op \notin {"status", "reset --hard", "pull", "checkout"}
               /\ ops[i].ok =>
                      /\ i = Len(ops) =>
                             \/ uPc = "patch" /\ CurRepo = ops[i].repo
                             \/ /\ ops[i].repo \in Processed
                                /\ dry_run \/ OutcomesOf(ops[i].repo) = 1
                      /\ i < Len(ops) /\ ops[i + 1].repo = ops[i].repo =>
                             ops[i + 1].op = "write"
                      /\ \A k \in 1..Len(no_changes_log) :
                             no_changes_log[k].repo = ops[i].repo =>
                                 no_changes_log[k].reason \in {NO_SC_FILES, ALREADY_MAIN}

\* A branch created from upstream was patched and pushed with no status,
\* reset or pull in between.
C23_Witness ==
    \E i \in 1..Len(ops) :
        /\ ops[i].op = "checkout -b"
        /\ ops[i].ok
        /\ i + 1 <= Len(ops)
        /\ ops[i + 1].op = "write"
        /\ ops[i + 1].repo = ops[i].repo
        /\ HasOp(ops[i].repo, "push")

\* The manifest parses, has the annotation, and its URL has main for the
\* version tag.
ReferencesMain(content) ==
    LET data == YamlLoad(content)
    IN /\ ~data.raised
       /\ data.has_metadata
       /\ data.has_pipeline
       /\ HasMainForVersion(data.url)

\* C24: a repository recorded after patching found nothing to modify has no
\* add, commit or push; the reason recorded is the no-files reason exactly
\* when the working copy holds no -sc manifest, and the already-on-main
\* reason only when every -sc manifest of the working copy parses and
\* references main.
C24_AlreadyMainMeansReferencesMain ==
    \A k \in 1..Len(no_changes_log) :
        LET r == no_changes_log[k].repo
            candidates == find_sc_files(world[r].wt)
        IN no_changes_log[k].reason \in {NO_SC_FILES, ALREADY_MAIN} =>
               /\ \A j \in 1..Len(ops) :
                      ops[j].repo = r => ops[j].op \notin {"add", "commit", "push"}
               /\ no_changes_log[k].reason = NO_SC_FILES <=> candidates = <<>>
               /\ no_changes_log[k].reason = ALREADY_MAIN =>
                      \A n \in 1..Len(candidates) :
                          ReferencesMain(candidates[n].content)

\* The manifest needs the rewrite: it parses and its annotation is a URL
\* with a version tag.
NeedsRewrite(content) ==
    LET data == YamlLoad(content)
    IN /\ ~data.raised
       /\ data.has_metadata
       /\ data.has_pipeline
       /\ UrlOfVersionShape(data.url)

\* C25: once the files of a repository have been through update_yaml_file
\* and before the commit (the branch head still holds the files as they
\* were), a -sc manifest that does not parse is not among files_changed,
\* was not written and is as it was; every -sc manifest beside it that
\* needs the rewrite is among files_changed, was written and, unless this
\* is a dry run, references main in the working copy; and when the commit is
\* due every file of files_changed has been added; a repository recorded
\* as having nothing to change holds no manifest that needs the rewrite.
C25_ParseErrorSkipsOnlyThatFile ==
    /\ \A k \in 1..Len(no_changes_log) :
           no_changes_log[k].reason = ALREADY_MAIN =>
               LET left == find_sc_files(world[no_changes_log[k].repo].wt)
               IN \A n \in 1..Len(left) : ~NeedsRewrite(left[n].content)
    /\ uPc \in {"add", "commit"} =>
        LET before == find_sc_files(Git.local.files)
            changed == {files_changed[n] : n \in 1..Len(files_changed)}
            written == {w.arg : w \in {WritesOf(CurRepo)[n] :
                                          n \in 1..Len(WritesOf(CurRepo))}}
            added == {s.arg : s \in {o \in {CommitOpsOf(CurRepo)[n] :
                                               n \in 1..Len(CommitOpsOf(CurRepo))} :
                                        o.op = "add" /\ o.ok}}
        IN /\ \A n \in 1..Len(before) :
                  YamlLoad(before[n].content).raised =>
                      /\ before[n].name \notin changed \cup written
                      /\ \E m \in 1..Len(Git.wt) : Git.wt[m] = before[n]
                      /\ \A o \in 1..Len(before) :
                             NeedsRewrite(before[o].content) =>
                                 /\ before[o].name \in changed \cap written
                                 /\ ~dry_run =>
                                        \E m \in 1..Len(Git.wt) :
                                            /\ Git.wt[m].name = before[o].name
                                            /\ ReferencesMain(Git.wt[m].content)
           /\ uPc = "commit" => added = changed


----------------------------------------------------------------------------
(* Specifications *)

NextTag == CallIsScTagInRange

\* is_sc_tag_in_range applied to one input.
InitSpecTag == InitTag /\ QuayIdle /\ PatchIdle /\ UpdaterIdle /\ CoordIdle /\ NoRegistry

SpecTag == InitSpecTag /\ [][NextTag]_vars

\* search_by_date_range called with a mapping, a date range and a filter.
InitSpecQuay == InitSearch /\ TagIdle /\ PatchIdle /\ UpdaterIdle /\ CoordIdle

SpecQuay == InitSpecQuay /\ [][NextQuay]_vars

\* update_yaml_file applied to one manifest.
InitSpecPatch ==
    /\ InitPatch /\ TagIdle /\ QuayIdle /\ UpdaterIdle /\ CoordIdle /\ NoRegistry
    /\ start_date = <<>> /\ end_date = <<>>

SpecPatch == InitSpecPatch /\ [][NextPatch]_vars

\* TektonUpdater.run, as update_tekton_sc.main starts it.
InitSpecUpdater ==
    /\ InitUpdater /\ TagIdle /\ QuayIdle /\ PatchIdle /\ CoordIdle /\ NoRegistry
    /\ start_date = <<>> /\ end_date = <<>>

SpecUpdater == InitSpecUpdater /\ [][NextUpdater]_vars

\* TektonUpdater.run twice in a row on the same working copies.
InitSpecTwice ==
    /\ InitTwice /\ TagIdle /\ QuayIdle /\ PatchIdle /\ CoordIdle /\ NoRegistry
    /\ start_date = <<>> /\ end_date = <<>>

SpecTwice == InitSpecTwice /\ [][NextTwice]_vars

\* coordinator.main: the search, then TektonUpdater on the stale services.
Init ==
    /\ InitCoordinator /\ TagIdle /\ QuayIdle /\ PatchIdle
    /\ start_date = <<>> /\ end_date = <<>>

Next == NextCoordinator \/ NextQuay \/ NextUpdater

Spec == Init /\ [][Next]_vars

\* The registry answers the request that is due: get_quay_tags returns.
GetQuayTagsReturns ==
    /\ qPc = "fetch"
    /\ \E resp \in Responses(page) :
           LET item == repos[idx + 1]
               parsed == parse_quay_repo(item.repo_url)
           IN requests' = Append(requests,
                  [service |-> item.service, namespace |-> parsed.namespace,
                   repository |-> parsed.repository, page |-> page,
                   kind |-> resp.kind, tags |-> resp.tags,
                   has_additional |-> resp.has_additional])

\* The loop of process_repository over the manifests comes to its end:
\* update_yaml_file returns for every file.
PatchFilesReturns ==
    /\ uPc = "patch"
    /\ uPc' \in {"add", "fetch", "done"}

\* The run as a sequential program whose external calls all return: the
\* step that is due is taken, be it a step of main, of the loop of
\* search_by_date_range or of TektonUpdater.run, the return of a request or
\* the return of a git command.
SpecLive ==
    /\ Init
    /\ [][Next]_vars
    /\ WF_vars(NextCoordinator)
    /\ WF_vars(SearchIterate)
    /\ WF_vars(SearchReturn)
    /\ WF_requests(GetQuayTagsReturns)
    /\ WF_vars(RunStart)
    /\ WF_vars(Fetch)
    /\ WF_vars(RevParseLocal)
    /\ WF_vars(RevParseUpstream)
    /\ WF_vars(Checkout)
    /\ WF_vars(Status)
    /\ WF_vars(Reset)
    /\ WF_vars(Pull)
    /\ WF_uPc(PatchFilesReturns)
    /\ WF_vars(Add)
    /\ WF_vars(Commit)
    /\ WF_vars(RevParseHead)
    /\ WF_vars(Push)

====
